---- MODULE Spec2Model ----
(***************************************************************************)
(* A model of the chunk pipeline of src/src/engine.ts: the toroidal ring   *)
(* of chunks (Circle), the run-length Column buffer, the Chunk neighbor /  *)
(* dirty / mesh state machine and the World operations driving them.       *)
(***************************************************************************)
EXTENDS Integers, Sequences, FiniteSets, TLC

\* -------------------------------------------------------------------------
\* Dimensions of the model.  The source has kChunkBits = 4, kWorldHeight =
\* 256 and kChunkRadius = 12; the model keeps the code and shrinks the world.
kChunkBits == 1
kWorldHeight == 2
kChunkRadius == 2

\* Per-frame budgets, as in the source.
kNumChunksToLoadPerFrame == 1
kNumChunksToMeshPerFrame == 1

RECURSIVE Pow2(_)
Pow2(n) == IF n = 0 THEN 1 ELSE 2 * Pow2(n - 1)

kChunkWidth == Pow2(kChunkBits)
kChunkMask == kChunkWidth - 1

kEmptyBlock == 0
kUnknownBlock == 1
\* Blocks a game registers on top of the two built-in ones.
kStone == 2
kWater == 3

Null == [null |-> TRUE]

Abs(n) == IF n < 0 THEN -n ELSE n
Min(a, b) == IF a <= b THEN a ELSE b
Max(a, b) == IF a >= b THEN a ELSE b
\* The least element instead of the greatest.
SetMin(S) == CHOOSE m \in S : \A n \in S : m <= n

SetMax(S) == CHOOSE m \in S : \A n \in S : n <= m

\* x >> bits and x & mask on (two's complement) integers.
Shr(x, bits) == x \div Pow2(bits)
And(x, mask) == x % (mask + 1)

\* -------------------------------------------------------------------------
\* Circle: a ring of radius num / den, with the constructor's tables.

\* A sort that leaves the points in generation order (i, then j).
PointKeyUnsorted(p, floor) == (p[1] + floor) * (2 * floor + 1) + (p[2] + floor)

PointKey(p, floor) ==
  ((p[1] * p[1] + p[2] * p[2]) * (2 * floor + 1) + (p[1] + floor)) * (2 * floor + 1)
    + (p[2] + floor)

\* points.sort by distance; ties stay in generation order (i, then j).
RECURSIVE SortPoints(_, _)
SortPoints(S, floor) ==
  IF S = {} THEN <<>>
  ELSE LET p == CHOOSE q \in S : \A r \in S : PointKey(q, floor) <= PointKey(r, floor)
       IN <<p>> \o SortPoints(S \ {p}, floor)

RECURSIVE CircleShift(_, _)
CircleShift(shift, floor) ==
  IF Pow2(shift) < 2 * floor + 1 THEN CircleShift(shift + 1, floor) ELSE shift

CircleNew(num, den) ==
  LET floor == num \div den
      range == (-floor) .. floor
      inside == {p \in range \X range :
                   (p[1] * p[1] + p[2] * p[2]) * den * den <= num * num}
      points == SortPoints(inside, floor)
      deltas == [ai \in 0 .. floor |->
                   SetMax({0} \cup {Abs(p[2]) : p \in {q \in inside : Abs(q[1]) = ai}})]
      shift == CircleShift(0, floor)
  IN [center_x |-> 0, center_z |-> 0,
      floor |-> floor, points |-> points, deltas |-> deltas,
      elements |-> [i \in 0 .. (Pow2(2 * shift) - 1) |-> Null],
      shift |-> shift, mask |-> Pow2(shift) - 1, side |-> Pow2(shift)]

\* ((cz & mask) << shift) | (cx & mask), with side = 1 << shift = mask + 1
CircleIndex(c, cx, cz) == (cz % c.side) * c.side + (cx % c.side)

\* A get that returns whatever the slot holds.
CircleGetSlot(c, cx, cz) == c.elements[CircleIndex(c, cx, cz)]

CircleGet(c, cx, cz) ==
  LET value == c.elements[CircleIndex(c, cx, cz)]
  IN IF value # Null /\ value.cx = cx /\ value.cz = cz THEN value ELSE Null

\* An envelope without its rim: az < deltas[ax].
CircleInEnvelopeStrict(c, ax, az) == ax <= c.floor /\ az < c.deltas[ax]

\* The test in Circle.center: deltas[ax] is undefined past the table, and a
\* comparison with undefined is false.
CircleInEnvelope(c, ax, az) == ax <= c.floor /\ az <= c.deltas[ax]

\* The absolute coordinates Circle.each visits, in order.
CircleEach(c, center_x, center_z) ==
  [n \in 1 .. Len(c.points) |-> <<c.points[n][1] + center_x, c.points[n][2] + center_z>>]

\* -------------------------------------------------------------------------
\* Tensor3 / Tensor2 (base.ts): flat arrays, the y stride of a Tensor3 is 1.

TensorIndex(x, y, z) == x * kWorldHeight + y + z * (kChunkWidth * kWorldHeight)
TensorSize == kChunkWidth * kWorldHeight * kChunkWidth
Tensor2Index(x, z) == x + z * kChunkWidth
Tensor2Size == kChunkWidth * kChunkWidth

\* data.fill(block, from, to)
Fill(data, block, from, to) ==
  [i \in DOMAIN data |-> IF from <= i /\ i < to THEN block ELSE data[i]]

\* -------------------------------------------------------------------------
\* Column

ColumnNew ==
  [decorations |-> <<>>,
   data |-> [i \in 0 .. (2 * kWorldHeight - 1) |-> 0],
   last |-> 0,
   size |-> 0,
   mismatches |-> [i \in 0 .. (kWorldHeight - 1) |-> 0],
   reference_data |-> [i \in 0 .. (2 * kWorldHeight - 1) |-> 0],
   reference_size |-> 0]

ColumnClear(col) == [col EXCEPT !.decorations = <<>>, !.last = 0, !.size = 0]

ColumnOverwrite(col, block, y) ==
  IF ~(0 <= y /\ y < kWorldHeight) THEN col
  ELSE [col EXCEPT !.decorations = Append(Append(@, block), y)]

\* A push that also stores a run as high as the current top.
ColumnPushEqual(col, block, height0) ==
  LET height == Min(height0, kWorldHeight)
      offset == 2 * col.size
  IN IF height < col.last THEN col
     ELSE [col EXCEPT !.last = height,
                      !.data = [@ EXCEPT ![offset] = block, ![offset + 1] = height],
                      !.size = @ + 1]

ColumnPush(col, block, height0) ==
  LET height == Min(height0, kWorldHeight)
      offset == 2 * col.size
  IN IF height <= col.last THEN col
     ELSE [col EXCEPT !.last = height,
                      !.data = [@ EXCEPT ![offset] = block, ![offset + 1] = height],
                      !.size = @ + 1]

ColumnGetNthBlock(col, n, bedrock) == IF n < 0 THEN bedrock ELSE col.data[2 * n]
ColumnGetNthLevel(col, n) == IF n < 0 THEN 0 ELSE col.data[2 * n + 1]
ColumnGetSize(col) == col.size

\* A walk that puts a change of matching at the start of this column's run.
ColumnMergeStepAtRunStart(col, s) ==
  LET d_limit == col.data[2 * s.di + 1]
      r_limit == col.reference_data[2 * s.ri + 1]
      flip == s.matched # (col.data[2 * s.di] = col.reference_data[2 * s.ri])
  IN [mismatches |->
        IF flip
        THEN [s.mismatches EXCEPT ![s.d_start] = @ + (IF s.matched THEN 1 ELSE -1)]
        ELSE s.mismatches,
      matched |-> IF flip THEN ~s.matched ELSE s.matched,
      di |-> IF d_limit <= r_limit THEN s.di + 1 ELSE s.di,
      ri |-> IF r_limit <= d_limit THEN s.ri + 1 ELSE s.ri,
      d_start |-> IF d_limit <= r_limit THEN d_limit ELSE s.d_start,
      r_start |-> IF r_limit <= d_limit THEN r_limit ELSE s.r_start]

\* The two-pointer walk of detectEquiLevelChanges over this column's runs
\* and the reference column's runs.  s holds the loop's variables.
ColumnMergeStep(col, s) ==
  LET d_limit == col.data[2 * s.di + 1]
      r_limit == col.reference_data[2 * s.ri + 1]
      flip == s.matched # (col.data[2 * s.di] = col.reference_data[2 * s.ri])
  IN [mismatches |->
        IF flip
        THEN [s.mismatches EXCEPT ![Max(s.d_start, s.r_start)] =
                                     @ + (IF s.matched THEN 1 ELSE -1)]
        ELSE s.mismatches,
      matched |-> IF flip THEN ~s.matched ELSE s.matched,
      di |-> IF d_limit <= r_limit THEN s.di + 1 ELSE s.di,
      ri |-> IF r_limit <= d_limit THEN s.ri + 1 ELSE s.ri,
      d_start |-> IF d_limit <= r_limit THEN d_limit ELSE s.d_start,
      r_start |-> IF r_limit <= d_limit THEN r_limit ELSE s.r_start]

RECURSIVE ColumnMergeWalk(_, _)
ColumnMergeWalk(col, s) ==
  IF s.di < col.size /\ s.ri < col.reference_size
  THEN ColumnMergeWalk(col, ColumnMergeStep(col, s))
  ELSE s

\* mismatches[level]++ and mismatches[level + 1]-- for each decoration; the
\* decorations are (block, level) pairs laid out flat.
RECURSIVE ColumnCountDecorations(_, _, _)
ColumnCountDecorations(decorations, mismatches, i) ==
  IF i > Len(decorations) THEN mismatches
  ELSE ColumnCountDecorations(
         decorations,
         [y \in DOMAIN mismatches |->
            IF y = decorations[i + 1] THEN mismatches[y] + 1
            ELSE IF y = decorations[i + 1] + 1 THEN mismatches[y] - 1
            ELSE mismatches[y]],
         i + 2)

\* The closing empty run of detectEquiLevelChanges.
ColumnCloseRuns(col) ==
  IF col.last < kWorldHeight
  THEN [col EXCEPT !.data = [@ EXCEPT ![2 * col.size] = kEmptyBlock,
                                      ![2 * col.size + 1] = kWorldHeight],
                   !.size = @ + 1]
  ELSE col

\* A first column that counts on from the mismatches of the last chunk.
ColumnDetectFirstKeepsMismatches(col) ==
  [column |->
     [col EXCEPT
        !.mismatches = ColumnCountDecorations(col.decorations, col.mismatches, 1),
        !.reference_data = [i \in DOMAIN @ |-> IF i < 2 * col.size THEN col.data[i] ELSE @[i]],
        !.reference_size = col.size],
   ok |-> TRUE]

\* Returns the column and whether its four closing assertions held.
ColumnDetectFirst(col) ==
  [column |->
     [col EXCEPT
        !.mismatches = ColumnCountDecorations(
                         col.decorations, [i \in 0 .. (kWorldHeight - 1) |-> 0], 1),
        !.reference_data = [i \in DOMAIN @ |-> IF i < 2 * col.size THEN col.data[i] ELSE @[i]],
        !.reference_size = col.size],
   ok |-> TRUE]

ColumnDetectWalked(col, walk) ==
  [column |-> [col EXCEPT !.mismatches = walk.mismatches],
   ok |-> /\ walk.di = col.size
          /\ walk.ri = col.reference_size
          /\ walk.d_start = kWorldHeight
          /\ walk.r_start = kWorldHeight]

\* A walk that starts unmatched.
ColumnDetectRestUnmatched(col) ==
  ColumnDetectWalked(
    col,
    ColumnMergeWalk(
      col,
      [mismatches |-> ColumnCountDecorations(col.decorations, col.mismatches, 1),
       matched |-> FALSE, di |-> 0, ri |-> 0, d_start |-> 0, r_start |-> 0]))

ColumnDetectRest(col) ==
  ColumnDetectWalked(
    col,
    ColumnMergeWalk(
      col,
      [mismatches |-> ColumnCountDecorations(col.decorations, col.mismatches, 1),
       matched |-> TRUE, di |-> 0, ri |-> 0, d_start |-> 0, r_start |-> 0]))

ColumnDetectEquiLevelChanges(col, first) ==
  IF first THEN ColumnDetectFirst(ColumnCloseRuns(col))
  ELSE ColumnDetectRest(ColumnCloseRuns(col))

\* current += mismatches[i]; equilevels[i] = (current === 0 ? 1 : 0)
RECURSIVE ColumnRunningSum(_, _)
ColumnRunningSum(mismatches, i) ==
  IF i < 0 THEN 0 ELSE ColumnRunningSum(mismatches, i - 1) + mismatches[i]

ColumnFillEquilevels(col) ==
  [i \in 0 .. (kWorldHeight - 1) |->
     IF ColumnRunningSum(col.mismatches, i) = 0 THEN 1 ELSE 0]

\* -------------------------------------------------------------------------
\* Chunk

ChunkNew(cx, cz) ==
  [cx |-> cx, cz |-> cz, dirty |-> FALSE, ready |-> FALSE, neighbors |-> 0,
   solid |-> Null, water |-> Null,
   voxels |-> [i \in 0 .. (TensorSize - 1) |-> 0],
   heightmap |-> [i \in 0 .. (Tensor2Size - 1) |-> 0],
   equilevels |-> [i \in 0 .. (kWorldHeight - 1) |-> 0]]

\* The downward scan of updateHeightmap: the number of empty voxels right
\* below start.
RECURSIVE ChunkScanDown(_, _, _, _)
ChunkScanDown(data, index, start, i) ==
  IF i < start /\ data[index - i - 1] = kEmptyBlock
  THEN ChunkScanDown(data, index, start, i + 1)
  ELSE i

\* An update that takes the height down to the removed block and no lower.
ChunkUpdateHeightmapNoRescan(chunk, xm, zm, index, start, count, block) ==
  LET end == start + count
      offset == Tensor2Index(xm, zm)
      height == chunk.heightmap[offset]
  IN IF block = kEmptyBlock /\ start < height /\ height <= end
     THEN [chunk EXCEPT !.heightmap[offset] = start]
     ELSE IF block # kEmptyBlock /\ height <= end
     THEN [chunk EXCEPT !.heightmap[offset] = end]
     ELSE chunk

\* Called with the voxels already written.
ChunkUpdateHeightmap(chunk, xm, zm, index, start, count, block) ==
  LET end == start + count
      offset == Tensor2Index(xm, zm)
      height == chunk.heightmap[offset]
  IN IF block = kEmptyBlock /\ start < height /\ height <= end
     THEN [chunk EXCEPT !.heightmap[offset] =
                           start - ChunkScanDown(chunk.voxels, index, start, 0)]
     ELSE IF block # kEmptyBlock /\ height <= end
     THEN [chunk EXCEPT !.heightmap[offset] = end]
     ELSE chunk

ChunkSetColumn(chunk, x, z, start, count, block) ==
  LET xm == And(x, kChunkMask)
      zm == And(z, kChunkMask)
      index == TensorIndex(xm, start, zm)
      written == [chunk EXCEPT !.voxels = Fill(@, block, index, index + count)]
  IN ChunkUpdateHeightmap(written, xm, zm, index, start, count, block)

ChunkGetBlock(chunk, x, y, z) ==
  chunk.voxels[TensorIndex(And(x, kChunkMask), y, And(z, kChunkMask))]

ChunkGetHeight(chunk, x, z) ==
  chunk.heightmap[Tensor2Index(And(x, kChunkMask), And(z, kChunkMask))]

ChunkHasMesh(chunk) == chunk.solid # Null \/ chunk.water # Null

\* A needsRemesh that looks at ready alone.
ChunkNeedsRemeshWhenReady(chunk) == chunk.ready

ChunkNeedsRemesh(chunk) == chunk.dirty /\ chunk.ready

\* A chunk that is ready with three neighbors.
ChunkCheckReadyThree(chunk) == chunk.neighbors >= 3

ChunkCheckReady(chunk) == chunk.neighbors = 4

\* Column.fillChunk: the runs, then the decorations, then the mismatch
\* counters.  at = <<x, z>>.
RECURSIVE ColumnFillRuns(_, _, _, _)
ColumnFillRuns(col, chunk, at, i) ==
  IF i >= col.size THEN chunk
  ELSE ColumnFillRuns(
         col,
         ChunkSetColumn(chunk, at[1], at[2],
                        ColumnGetNthLevel(col, i - 1),
                        col.data[2 * i + 1] - ColumnGetNthLevel(col, i - 1),
                        col.data[2 * i]),
         at, i + 1)

RECURSIVE ColumnFillDecorations(_, _, _, _)
ColumnFillDecorations(col, chunk, at, i) ==
  IF i > Len(col.decorations) THEN chunk
  ELSE ColumnFillDecorations(
         col,
         ChunkSetColumn(chunk, at[1], at[2], col.decorations[i + 1], 1, col.decorations[i]),
         at, i + 2)

\* A fill that applies the decorations first and the runs after them.
ColumnFillChunkRunsLast(col, x, z, chunk, first) ==
  [filled |-> ColumnFillRuns(col, ColumnFillDecorations(col, chunk, <<x, z>>, 1), <<x, z>>, 0),
   detected |-> ColumnDetectEquiLevelChanges(col, first)]

ColumnFillChunk(col, x, z, chunk, first) ==
  [filled |-> ColumnFillDecorations(col, ColumnFillRuns(col, chunk, <<x, z>>, 0), <<x, z>>, 1),
   detected |-> ColumnDetectEquiLevelChanges(col, first)]

\* -------------------------------------------------------------------------
\* The terrain callback and the mesher are injected.  The model's terrain
\* makes four kinds of chunk: stone under water, stone of two heights with
\* a decoration, water alone, and nothing.

TerrainLoader == [name |-> "terrain"]

TerrainOps(x, z) ==
  LET kind == And(Shr(x, kChunkBits) + 2 * Shr(z, kChunkBits), 3)
  IN CASE kind = 0 -> << <<"push", kStone, 1>>, <<"push", kWater, kWorldHeight>> >>
       [] kind = 1 -> << <<"push", kStone, 1 + And(x + z, 1)>> >> \o
                      (IF And(x, kChunkMask) = 0 /\ And(z, kChunkMask) = 0
                       THEN << <<"overwrite", kStone, kWorldHeight - 1>> >>
                       ELSE <<>>)
       [] kind = 2 -> << <<"push", kWater, 1>> >>
       [] OTHER -> <<>>

\* The calls a loader makes on the column at (x, z).  A loader other than
\* the terrain is given by the calls it makes on each column of a chunk,
\* the same in every chunk: columns[1 + xm * kChunkWidth + zm].
LoaderOps(loader, x, z) ==
  IF loader.name = "terrain" THEN TerrainOps(x, z)
  ELSE loader.columns[1 + And(x, kChunkMask) * kChunkWidth + And(z, kChunkMask)]

\* loader(x, z, column): the callback's calls on the column.
RECURSIVE ColumnApply(_, _, _)
ColumnApply(col, ops, i) ==
  IF i > Len(ops) THEN col
  ELSE ColumnApply(IF ops[i][1] = "push"
                   THEN ColumnPush(col, ops[i][2], ops[i][3])
                   ELSE ColumnOverwrite(col, ops[i][2], ops[i][3]),
                   ops, i + 1)

\* A VoxelMesh the renderer has handed out and nobody has disposed yet is in
\* w.meshes.  A new one is named by the chunk and kind it is built for.
RECURSIVE FreshMesh(_, _, _, _, _)
FreshMesh(meshes, cx, cz, kind, gen) ==
  LET h == [cx |-> cx, cz |-> cz, kind |-> kind, gen |-> gen]
  IN IF h \in meshes THEN FreshMesh(meshes, cx, cz, kind, gen + 1) ELSE h

\* mesh.dispose()
MeshDispose(w, mesh) ==
  IF mesh \in w.meshes
  THEN [w EXCEPT !.meshes = @ \ {mesh}]
  ELSE [w EXCEPT !.faults = @ \cup {"dispose of a disposed mesh"}]

\* One of the two meshes meshChunk builds: none when there is no geometry of
\* that kind (the old mesh, if any, is then disposed by the mesher), else the
\* old mesh with new geometry, else a new mesh.
MesherBuild(w, has, old, cx, cz, kind) ==
  IF ~has
  THEN [w |-> IF old # Null THEN MeshDispose(w, old) ELSE w, mesh |-> Null]
  ELSE IF old # Null THEN [w |-> w, mesh |-> old]
  ELSE LET h == FreshMesh(w.meshes, cx, cz, kind, 0)
       IN [w |-> [w EXCEPT !.meshes = @ \cup {h}], mesh |-> h]

\* -------------------------------------------------------------------------
\* Operations on the world w = [chunks, column, bedrock, loadChunk,
\* loadFrontier, frontier, meshes, faults, disposed].  A failed assertion is
\* fatal: it is recorded in w.faults, the loop it happens in stops there,
\* and no operation runs afterwards.

WorldGetChunk(w, cx, cz) == CircleGet(w.chunks, cx, cz)

\* Writes a chunk object back to the slot it lives in.
WorldPutChunk(w, chunk) ==
  [w EXCEPT !.chunks.elements[CircleIndex(w.chunks, chunk.cx, chunk.cz)] = chunk]

Fault(w, ok, what) == IF ok THEN w ELSE [w EXCEPT !.faults = @ \cup {what}]

MeshDisposeBoth(w, solid, water) ==
  IF solid # Null
  THEN IF water # Null THEN MeshDispose(MeshDispose(w, solid), water)
       ELSE MeshDispose(w, solid)
  ELSE IF water # Null THEN MeshDispose(w, water) ELSE w

\* A dropMeshes that forgets its handles without disposing them.
ChunkDropMeshesForgets(w, chunk) ==
  WorldPutChunk(w, [chunk EXCEPT !.solid = Null, !.water = Null, !.dirty = TRUE])

\* A dropMeshes that leaves the dirty flag as it is.
ChunkDropMeshesKeepsClean(w, chunk) ==
  WorldPutChunk(MeshDisposeBoth(w, chunk.solid, chunk.water),
                [chunk EXCEPT !.solid = Null, !.water = Null])

ChunkDropMeshes(w, chunk) ==
  WorldPutChunk(MeshDisposeBoth(w, chunk.solid, chunk.water),
                [chunk EXCEPT !.solid = Null, !.water = Null, !.dirty = TRUE])

\* A chunk that only counts a disposed neighbor.
ChunkNotifyNeighborDisposedCountsOnly(w, chunk) ==
  WorldPutChunk(Fault(w, chunk.neighbors > 0, "assert in notifyNeighborDisposed"),
                [chunk EXCEPT !.neighbors = @ - 1])

ChunkNotifyNeighborDisposed(w, chunk) ==
  IF chunk.ready /\ ~ChunkCheckReady([chunk EXCEPT !.neighbors = @ - 1])
  THEN ChunkDropMeshes(
         Fault(w, chunk.neighbors > 0, "assert in notifyNeighborDisposed"),
         [chunk EXCEPT !.neighbors = @ - 1, !.ready = FALSE])
  ELSE WorldPutChunk(
         Fault(w, chunk.neighbors > 0, "assert in notifyNeighborDisposed"),
         [chunk EXCEPT !.neighbors = @ - 1,
                       !.ready = ChunkCheckReady([chunk EXCEPT !.neighbors = @ - 1])])

ChunkNotifyNeighborLoaded(w, chunk) ==
  WorldPutChunk(
    Fault(w, chunk.neighbors < 4, "assert in notifyNeighborLoaded"),
    [chunk EXCEPT !.neighbors = @ + 1,
                  !.ready = ChunkCheckReady([chunk EXCEPT !.neighbors = @ + 1])])

\* A dispose that tells no neighbor.
ChunkDisposeNeighborSilent(w, cx, cz) == w

\* The closure `neighbor` of Chunk.dispose.
ChunkDisposeNeighbor(w, cx, cz) ==
  IF WorldGetChunk(w, cx, cz) # Null
  THEN ChunkNotifyNeighborDisposed(w, WorldGetChunk(w, cx, cz))
  ELSE w

\* w.disposed lists the chunks dispose has been called on within the running
\* operation; it is no part of the program's state.
ChunkDispose(w, chunk) ==
  ChunkDisposeNeighbor(
    ChunkDisposeNeighbor(
      ChunkDisposeNeighbor(
        ChunkDisposeNeighbor(
          ChunkDropMeshes([w EXCEPT !.disposed = Append(@, <<chunk.cx, chunk.cz>>)],
                          chunk),
          chunk.cx + 1, chunk.cz),
        chunk.cx - 1, chunk.cz),
      chunk.cx, chunk.cz + 1),
    chunk.cx, chunk.cz - 1)

\* The first of the visits `wanted`, those whose callback gets past its
\* early returns, or 0: the visits before it return at once.
FirstVisit(wanted) ==
  LET calls == wanted
  IN IF calls = {} THEN 0
     ELSE CHOOSE m \in calls : \A k \in calls : m <= k

\* A center that tests the envelope of the old center.
ChunksCenterEvictsAroundOldCenter(w, cx, cz, to) ==
  /\ ~CircleInEnvelope(w.chunks, Abs(cx - w.chunks.center_x),
                       Abs(cz - w.chunks.center_z))
  /\ w.chunks.elements[CircleIndex(w.chunks, cx, cz)] # Null

\* A center that tests az < deltas[ax].
ChunksCenterEvictsRim(w, cx, cz, to) ==
  /\ ~(/\ Abs(cx - to[1]) <= w.chunks.floor
       /\ Abs(cz - to[2]) < w.chunks.deltas[Abs(cx - to[1])])
  /\ w.chunks.elements[CircleIndex(w.chunks, cx, cz)] # Null

\* The callback of the each in Circle.center on World.chunks, at the visit
\* (cx, cz) of the old disc, for the new center to = <<x, z>>: does it get
\* past its two early returns?
ChunksCenterEvicts(w, cx, cz, to) ==
  /\ ~CircleInEnvelope(w.chunks, Abs(cx - to[1]), Abs(cz - to[2]))
  /\ w.chunks.elements[CircleIndex(w.chunks, cx, cz)] # Null

\* A center that leaves the evicted element in its slot.
ChunksCenterEvictKeepsSlot(w, index) == ChunkDispose(w, w.chunks.elements[index])

\* The rest of that callback.
ChunksCenterEvict(w, index) ==
  [ChunkDispose(w, w.chunks.elements[index]) EXCEPT !.chunks.elements[index] = Null]

RECURSIVE ChunksCenterFrom(_, _, _, _)
ChunksCenterFrom(w, visits, to, n) ==
  IF w.faults # {} \/ n = 0 THEN w
  ELSE LET evicted == ChunksCenterEvict(
                        w, CircleIndex(w.chunks, visits[n][1], visits[n][2]))
       IN ChunksCenterFrom(
            evicted, visits, to,
            FirstVisit({m \in (n + 1) .. Len(visits) :
                          ChunksCenterEvicts(evicted, visits[m][1], visits[m][2], to)}))

ChunksCenterAll(w, visits, to) ==
  ChunksCenterFrom(w, visits, to,
                   FirstVisit({m \in 1 .. Len(visits) :
                                 ChunksCenterEvicts(w, visits[m][1], visits[m][2], to)}))

\* A center whose each walks the disc around the new center.
ChunksCenterVisitsNewDisc(w, center_x, center_z) ==
  [ChunksCenterAll(w, CircleEach(w.chunks, center_x, center_z),
                   <<center_x, center_z>>)
     EXCEPT !.chunks.center_x = center_x, !.chunks.center_z = center_z]

ChunksCenter(w, center_x, center_z) ==
  [ChunksCenterAll(w, CircleEach(w.chunks, w.chunks.center_x, w.chunks.center_z),
                   <<center_x, center_z>>)
     EXCEPT !.chunks.center_x = center_x, !.chunks.center_z = center_z]

\* A set whose store is not stopped by the failed assertion.
ChunksSetOverwrites(w, cx, cz, value) ==
  [Fault(w, w.chunks.elements[CircleIndex(w.chunks, cx, cz)] = Null,
         "assert in Circle.set")
     EXCEPT !.chunks.elements[CircleIndex(w.chunks, cx, cz)] = value]

\* Circle.set on World.chunks: the failed assertion throws before the store.
ChunksSet(w, cx, cz, value) ==
  IF w.chunks.elements[CircleIndex(w.chunks, cx, cz)] = Null
  THEN [w EXCEPT !.chunks.elements[CircleIndex(w.chunks, cx, cz)] = value]
  ELSE Fault(w, FALSE, "assert in Circle.set")

\* One iteration of the column loop of Chunk.load; s = [column, chunk, ok],
\* k counts the columns, x outermost.
ChunkLoadFilled(s, fill) ==
  [column |-> ColumnClear(fill.detected.column),
   chunk |-> fill.filled,
   ok |-> s.ok /\ fill.detected.ok]

ChunkLoadColumn(s, loader, x, z, first) ==
  ChunkLoadFilled(
    s,
    ColumnFillChunk(ColumnApply(s.column, LoaderOps(loader, x, z), 1),
                    x, z, s.chunk, first))

RECURSIVE ChunkLoadColumns(_, _, _)
ChunkLoadColumns(s, loader, k) ==
  IF ~s.ok \/ k >= kChunkWidth * kChunkWidth THEN s
  ELSE ChunkLoadColumns(
         ChunkLoadColumn(s, loader,
                         (k \div kChunkWidth) + s.chunk.cx * kChunkWidth,
                         (k % kChunkWidth) + s.chunk.cz * kChunkWidth,
                         (k \div kChunkWidth) + (k % kChunkWidth) = 0),
         loader, k + 1)

\* A closure `neighbor` that counts a missing neighbor too.
ChunkLoadNeighborCountsAbsent(s, cx, cz) ==
  IF WorldGetChunk(s.w, cx, cz) = Null
  THEN [w |-> s.w, chunk |-> [s.chunk EXCEPT !.neighbors = @ + 1]]
  ELSE [w |-> ChunkNotifyNeighborLoaded(s.w, WorldGetChunk(s.w, cx, cz)),
        chunk |-> [s.chunk EXCEPT !.neighbors = @ + 1]]

\* The closure `neighbor` of Chunk.load; s = [w, chunk], chunk being the one
\* under construction, not yet in the ring.
ChunkLoadNeighbor(s, cx, cz) ==
  IF WorldGetChunk(s.w, cx, cz) = Null THEN s
  ELSE [w |-> ChunkNotifyNeighborLoaded(s.w, WorldGetChunk(s.w, cx, cz)),
        chunk |-> [s.chunk EXCEPT !.neighbors = @ + 1]]

ChunkLoadNeighbors(s) ==
  ChunkLoadNeighbor(
    ChunkLoadNeighbor(
      ChunkLoadNeighbor(
        ChunkLoadNeighbor(s, s.chunk.cx + 1, s.chunk.cz),
        s.chunk.cx - 1, s.chunk.cz),
      s.chunk.cx, s.chunk.cz + 1),
    s.chunk.cx, s.chunk.cz - 1)

ChunkLoadFinish(s) ==
  [w |-> s.w,
   chunk |-> [s.chunk EXCEPT !.dirty = TRUE, !.ready = ChunkCheckReady(s.chunk)]]

ChunkLoadLoaded(w, columns) ==
  ChunkLoadFinish(
    ChunkLoadNeighbors(
      [w |-> Fault([w EXCEPT !.column = columns.column], columns.ok,
                   "assert in detectEquiLevelChanges"),
       chunk |-> [columns.chunk EXCEPT
                    !.equilevels = ColumnFillEquilevels(columns.column)]]))

\* new Chunk(cx, cz, world, loader): the constructor and its load.
ChunkLoad(w, cx, cz, loader) ==
  ChunkLoadLoaded(
    w, ChunkLoadColumns([column |-> w.column, chunk |-> ChunkNew(cx, cz), ok |-> TRUE],
                        loader, 0))

\* The mesher's view of a chunk: is there any geometry of the kind?
ChunkHasBlock(chunk, block) == \E i \in DOMAIN chunk.voxels : chunk.voxels[i] = block

ChunkRemeshWater(solid, chunk) ==
  [solid |-> solid.mesh,
   water |-> MesherBuild(solid.w, ChunkHasBlock(chunk, kWater), chunk.water,
                         chunk.cx, chunk.cz, "water")]

ChunkRemeshStore(built, chunk) ==
  WorldPutChunk(built.water.w,
                [chunk EXCEPT !.solid = built.solid, !.water = built.water.mesh])

\* The five regions remeshTerrain copies into the padded buffer: the chunk
\* itself and the border strip of each lateral neighbour (x and z only; every
\* region spans the whole height and lands at buffer height 1).
kNeighborOffsets ==
  << [c |-> <<0, 0>>, dst |-> <<1, 1>>, src |-> <<0, 0>>,
      size |-> <<kChunkWidth, kChunkWidth>>],
     [c |-> <<-1, 0>>, dst |-> <<0, 1>>, src |-> <<kChunkWidth - 1, 0>>,
      size |-> <<1, kChunkWidth>>],
     [c |-> <<1, 0>>, dst |-> <<kChunkWidth + 1, 1>>, src |-> <<0, 0>>,
      size |-> <<1, kChunkWidth>>],
     [c |-> <<0, -1>>, dst |-> <<1, 0>>, src |-> <<0, kChunkWidth - 1>>,
      size |-> <<kChunkWidth, 1>>],
     [c |-> <<0, 1>>, dst |-> <<1, kChunkWidth + 1>>, src |-> <<0, 0>>,
      size |-> <<kChunkWidth, 1>>] >>

\* The block remeshTerrain leaves at cell (x, y, z) of the world's padded
\* buffer. Row 0 holds the bedrock written by setLoader, the top row and the
\* four corner columns are never written, and every other cell is copied from
\* the chunk the region belongs to, or zeroed when that chunk is absent.
ChunkPaddedBlock(w, chunk, x, y, z) ==
  LET regions == {n \in DOMAIN kNeighborOffsets :
                    /\ x >= kNeighborOffsets[n].dst[1]
                    /\ x < kNeighborOffsets[n].dst[1] + kNeighborOffsets[n].size[1]
                    /\ z >= kNeighborOffsets[n].dst[2]
                    /\ z < kNeighborOffsets[n].dst[2] + kNeighborOffsets[n].size[2]}
  IN IF y = 0 THEN w.bedrock
     ELSE IF y = kWorldHeight + 1 \/ regions = {} THEN kEmptyBlock
     ELSE LET o == kNeighborOffsets[CHOOSE n \in regions : TRUE]
              from == WorldGetChunk(w, chunk.cx + o.c[1], chunk.cz + o.c[2])
          IN IF from = Null THEN kEmptyBlock
             ELSE from.voxels[TensorIndex(o.src[1] + x - o.dst[1], y - 1,
                                          o.src[2] + z - o.dst[2])]

\* A copyEquilevels that looks only at the first cell of the border strip.
ChunkCopyEquilevelsFirstCell(dst, this, chunk, o) ==
  [y \in DOMAIN dst |->
     IF y < 1 \/ y > kWorldHeight \/ dst[y] = 0 THEN dst[y]
     ELSE IF chunk = Null
     THEN IF this.voxels[y - 1] # kEmptyBlock THEN 0 ELSE dst[y]
     ELSE IF chunk.equilevels[y - 1] = 1 /\ chunk.voxels[y - 1] = this.voxels[y - 1]
     THEN dst[y]
     ELSE IF chunk.voxels[TensorIndex(o.src[1], 0, o.src[2]) + (y - 1)]
               # this.voxels[y - 1]
     THEN 0 ELSE dst[y]]

\* Chunk.copyEquilevels with delta = 1: clears the merged flag of every layer
\* on which the neighbour's border strip differs from this chunk's block at
\* column (0, 0).
ChunkCopyEquilevels(dst, this, chunk, o) ==
  LET stride == IF o.size[1] = 1 THEN kChunkWidth * kWorldHeight ELSE kWorldHeight
      index  == TensorIndex(o.src[1], 0, o.src[2])
      count  == IF o.size[1] = 1 THEN o.size[2] ELSE o.size[1]
  IN [y \in DOMAIN dst |->
        IF y < 1 \/ y > kWorldHeight \/ dst[y] = 0 THEN dst[y]
        ELSE IF chunk = Null
        THEN IF this.voxels[y - 1] # kEmptyBlock THEN 0 ELSE dst[y]
        ELSE IF chunk.equilevels[y - 1] = 1 /\ chunk.voxels[y - 1] = this.voxels[y - 1]
        THEN dst[y]
        ELSE IF \E n \in 0 .. (count - 1) :
                  chunk.voxels[index + n * stride + (y - 1)] # this.voxels[y - 1]
        THEN 0 ELSE dst[y]]

\* The merged equi-level flags remeshTerrain hands to the mesher: the world's
\* array keeps 1 at both padding rows, rows 1 .. kWorldHeight start as the
\* chunk's own flags, and each of the four neighbours may clear them.
RECURSIVE ChunkMergeEquilevels(_, _, _, _)
ChunkMergeEquilevels(w, chunk, dst, n) ==
  IF n > Len(kNeighborOffsets) THEN dst
  ELSE ChunkMergeEquilevels(
         w, chunk,
         ChunkCopyEquilevels(
           dst, chunk,
           WorldGetChunk(w, chunk.cx + kNeighborOffsets[n].c[1],
                         chunk.cz + kNeighborOffsets[n].c[2]),
           kNeighborOffsets[n]),
         n + 1)

ChunkRemeshEquilevels(w, chunk) ==
  ChunkMergeEquilevels(
    w, chunk,
    [y \in 0 .. (kWorldHeight + 1) |->
       IF y = 0 \/ y = kWorldHeight + 1 THEN 1 ELSE chunk.equilevels[y - 1]],
    2)

ChunkRemeshTerrain(w, chunk) ==
  ChunkRemeshStore(
    ChunkRemeshWater(
      MesherBuild(w, ChunkHasBlock(chunk, kStone), chunk.solid,
                  chunk.cx, chunk.cz, "solid"),
      chunk),
    chunk)

ChunkClean(w, cx, cz) ==
  WorldPutChunk(w, [WorldGetChunk(w, cx, cz) EXCEPT !.dirty = FALSE])

ChunkRemeshChunk(w, chunk) ==
  ChunkClean(ChunkRemeshTerrain(Fault(w, chunk.dirty, "assert in remeshChunk"), chunk),
             chunk.cx, chunk.cz)

\* A closure `neighbor` that is called for all four sides.
ChunkDirtyNeighborAlways(w, on, cx, cz) ==
  IF WorldGetChunk(w, cx, cz) # Null
  THEN WorldPutChunk(w, [WorldGetChunk(w, cx, cz) EXCEPT !.dirty = TRUE])
  ELSE w

\* The closure `neighbor` of Chunk.setBlock.
ChunkDirtyNeighbor(w, on, cx, cz) ==
  IF on /\ WorldGetChunk(w, cx, cz) # Null
  THEN WorldPutChunk(w, [WorldGetChunk(w, cx, cz) EXCEPT !.dirty = TRUE])
  ELSE w

ChunkSetBlockAt(w, chunk, xm, y, zm, block) ==
  ChunkDirtyNeighbor(
    ChunkDirtyNeighbor(
      ChunkDirtyNeighbor(
        ChunkDirtyNeighbor(
          WorldPutChunk(
            w,
            [ChunkUpdateHeightmap(
               [chunk EXCEPT !.voxels[TensorIndex(xm, y, zm)] = block, !.dirty = TRUE],
               xm, zm, TensorIndex(xm, y, zm), y, 1, block)
               EXCEPT !.equilevels[y] = 0]),
          xm = 0, chunk.cx - 1, chunk.cz),
        xm = kChunkMask, chunk.cx + 1, chunk.cz),
      zm = 0, chunk.cx, chunk.cz - 1),
    zm = kChunkMask, chunk.cx, chunk.cz + 1)

\* A setBlock that swaps the column's local x and z.
ChunkSetBlockSwapped(w, chunk, x, y, z, block) ==
  IF ChunkGetBlock(chunk, x, y, z) = block THEN w
  ELSE ChunkSetBlockAt(w, chunk, And(z, kChunkMask), y, And(x, kChunkMask), block)

ChunkSetBlock(w, chunk, x, y, z, block) ==
  IF ChunkGetBlock(chunk, x, y, z) = block THEN w
  ELSE ChunkSetBlockAt(w, chunk, And(x, kChunkMask), y, And(z, kChunkMask), block)

\* -------------------------------------------------------------------------
\* LODMultiMesh.  The two 32-bit words of `mask` are kept as their sixteen
\* 4-bit fields, field i being bits 4 * (i & 7) .. of word i >> 3; a word is
\* -1 when its eight fields are all 15.

kNumLODChunksToMeshPerFrame == 1
kFrontierLOD == 2
kFrontierRadius == 0
kFrontierLevels == 1
kMultiMeshBits == 2
kMultiMeshSide == Pow2(kMultiMeshBits)
kMultiMeshArea == kMultiMeshSide * kMultiMeshSide
kLODSingleMask == Pow2(4) - 1

LODMultiMeshNew ==
  [solid |-> Null, water |-> Null,
   meshed |-> [i \in 0 .. (kMultiMeshArea - 1) |-> FALSE],
   enabled |-> [i \in 0 .. (kMultiMeshArea - 1) |-> FALSE],
   mask |-> [i \in 0 .. (kMultiMeshArea - 1) |-> kLODSingleMask]]

\* The multi-mesh a frontier chunk points to lives in the frontier's map.
LODPut(w, key, mesh) == [w EXCEPT !.frontier.meshes[key] = mesh]

LODSetMask(mesh, index, mask) == [mesh EXCEPT !.mask[index] = mask]

\* The tail of disable, once no sub-tile is enabled.
LODRelease(w, key, mesh) ==
  LODPut(MeshDisposeBoth(w, mesh.solid, mesh.water), key,
         [mesh EXCEPT !.meshed = [i \in DOMAIN @ |-> FALSE],
                      !.solid = Null, !.water = Null,
                      !.mask = [i \in DOMAIN @ |-> kLODSingleMask]])

\* A disable that releases the meshes whatever else is enabled.
LODDisabledReleases(w, key, mesh) == LODRelease(w, key, mesh)

LODDisabled(w, key, mesh) ==
  IF \E i \in DOMAIN mesh.enabled : mesh.enabled[i]
  THEN LODPut(w, key, mesh)
  ELSE LODRelease(w, key, mesh)

LODDisable(w, key, index) ==
  IF ~w.frontier.meshes[key].enabled[index] THEN w
  ELSE LODDisabled(
         w, key,
         [LODSetMask(w.frontier.meshes[key], index, kLODSingleMask)
            EXCEPT !.enabled[index] = FALSE])

LODIndex(cx, cz) ==
  And(cz, kMultiMeshSide - 1) * kMultiMeshSide + And(cx, kMultiMeshSide - 1)

LODShow(w, key, index, mask) ==
  LODPut(Fault(w, w.frontier.meshes[key].meshed[index], "assert in LODMultiMesh.show"),
         key,
         [LODSetMask(w.frontier.meshes[key], index, mask) EXCEPT !.enabled[index] = TRUE])

\* -------------------------------------------------------------------------
\* FrontierChunk: mesh is the key of its multi-mesh in the frontier's map.

FrontierChunkNew(cx, cz, level, mesh) ==
  [cx |-> cx, cz |-> cz, level |-> level, mesh |-> mesh]

FrontierChunkDispose(w, chunk) == LODDisable(w, chunk.mesh, LODIndex(chunk.cx, chunk.cz))

\* A hasMesh that looks at the enabled flag.
FrontierChunkHasMeshEnabled(w, chunk) ==
  w.frontier.meshes[chunk.mesh].enabled[LODIndex(chunk.cx, chunk.cz)]

FrontierChunkHasMesh(w, chunk) ==
  w.frontier.meshes[chunk.mesh].meshed[LODIndex(chunk.cx, chunk.cz)]

\* -------------------------------------------------------------------------
\* Frontier

\* The radius num / den of level l for a chunk ring of radius
\* radius + 0.5; level -1 stands for the chunk ring.
RECURSIVE FrontierRadius(_, _)
FrontierRadius(radius, l) ==
  IF l < 0 THEN <<2 * radius + 1, 2>>
  ELSE <<FrontierRadius(radius, l - 1)[1]
           + kFrontierRadius * FrontierRadius(radius, l - 1)[2],
         2 * FrontierRadius(radius, l - 1)[2]>>

FrontierSide == kChunkWidth \div kFrontierLOD
FrontierHeightmapSize == 3 * (FrontierSide + 2) * (FrontierSide + 2)

FrontierNew(radius) ==
  [levels |-> [l \in 0 .. (kFrontierLevels - 1) |->
                 CircleNew(FrontierRadius(radius, l)[1], FrontierRadius(radius, l)[2])],
   meshes |-> <<>>,
   solid_heightmap |-> [i \in 0 .. (FrontierHeightmapSize - 1) |-> 0],
   water_heightmap |-> [i \in 0 .. (FrontierHeightmapSize - 1) |-> 0]]

FrontierGet(w, l, cx, cz) ==
  CircleGet(w.frontier.levels[l], cx, cz)

\* One callback of the each in Circle.center on level l, at the visit
\* at = <<cx, cz>> of the old disc, for the new center to = <<x, z>>.
LevelCenterVisit(w, l, at, to) ==
  IF CircleInEnvelope(w.frontier.levels[l], Abs(at[1] - to[1]), Abs(at[2] - to[2]))
  THEN w
  ELSE IF w.frontier.levels[l].elements[CircleIndex(w.frontier.levels[l], at[1], at[2])] = Null
  THEN w
  ELSE [FrontierChunkDispose(
          w, w.frontier.levels[l].elements[CircleIndex(w.frontier.levels[l], at[1], at[2])])
          EXCEPT !.frontier.levels[l].elements[CircleIndex(w.frontier.levels[l], at[1], at[2])]
                   = Null]

RECURSIVE LevelCenterFrom(_, _, _, _)
LevelCenterFrom(w, l, to, n) ==
  IF w.faults # {} \/ n > Len(w.frontier.levels[l].points) THEN w
  ELSE LevelCenterFrom(
         LevelCenterVisit(
           w, l,
           <<w.frontier.levels[l].points[n][1] + w.frontier.levels[l].center_x,
             w.frontier.levels[l].points[n][2] + w.frontier.levels[l].center_z>>,
           to),
         l, to, n + 1)

LevelCenter(w, l, center_x, center_z) ==
  [LevelCenterFrom(w, l, <<center_x, center_z>>, 1)
     EXCEPT !.frontier.levels[l].center_x = center_x,
            !.frontier.levels[l].center_z = center_z]

\* A center that halves toward zero: -1 becomes 0.
RECURSIVE FrontierCenterFromTruncating(_, _, _, _)
FrontierCenterFromTruncating(w, cx, cz, l) ==
  IF w.faults # {} \/ l >= kFrontierLevels THEN w
  ELSE LET hx == IF cx < 0 THEN -Shr(-cx, 1) ELSE Shr(cx, 1)
           hz == IF cz < 0 THEN -Shr(-cz, 1) ELSE Shr(cz, 1)
       IN FrontierCenterFromTruncating(LevelCenter(w, l, hx, hz), hx, hz, l + 1)

\* Frontier.center: cx >>= 1, cz >>= 1 before each level.
RECURSIVE FrontierCenterFrom(_, _, _, _)
FrontierCenterFrom(w, cx, cz, l) ==
  IF w.faults # {} \/ l >= kFrontierLevels THEN w
  ELSE FrontierCenterFrom(LevelCenter(w, l, Shr(cx, 1), Shr(cz, 1)),
                          Shr(cx, 1), Shr(cz, 1), l + 1)

FrontierCenter(w, cx, cz) == FrontierCenterFrom(w, cx, cz, 0)

\* registry.solid: the two built-in blocks, then the blocks of the game.
RegistrySolid(block) ==
  CASE block = kEmptyBlock -> FALSE
    [] block = kUnknownBlock -> TRUE
    [] block = kStone -> TRUE
    [] OTHER -> FALSE

\* meshFrontier adds the geometry of one quadrant to the multi-mesh's mesh:
\* the old mesh when there is one, a new mesh when the heightmap holds a
\* block, else none.
MesherFrontier(w, heightmap, old, key, kind) ==
  IF old # Null THEN [w |-> w, mesh |-> old]
  ELSE IF \A i \in DOMAIN heightmap : i % 3 # 0 \/ heightmap[i] = kEmptyBlock
  THEN [w |-> w, mesh |-> Null]
  ELSE [w |-> [w EXCEPT !.meshes = @ \cup {FreshMesh(w.meshes, key, 0, kind, 0)}],
        mesh |-> FreshMesh(w.meshes, key, 0, kind, 0)]

\* The topmost solid run below the last one: the loop of createLODMeshes
\* over i = size .. 1, reading run i - 2.
RECURSIVE FrontierSolidBelow(_, _, _)
FrontierSolidBelow(col, bedrock, i) ==
  IF i <= 0 THEN Null
  ELSE IF RegistrySolid(ColumnGetNthBlock(col, i - 2, bedrock))
  THEN [block |-> ColumnGetNthBlock(col, i - 2, bedrock),
        level |-> ColumnGetNthLevel(col, i - 2)]
  ELSE FrontierSolidBelow(col, bedrock, i - 1)

Write3(data, offset, a, b, c) ==
  [i \in DOMAIN data |->
     IF i = offset THEN a ELSE IF i = offset + 1 THEN b
     ELSE IF i = offset + 2 THEN c ELSE data[i]]

\* The body of the sampling loop, on the column the loader has filled.
FrontierSampled(w, col, offset) ==
  IF RegistrySolid(ColumnGetNthBlock(col, ColumnGetSize(col) - 1, w.bedrock))
  THEN [w EXCEPT
          !.frontier.solid_heightmap =
             Write3(@, offset, ColumnGetNthBlock(col, ColumnGetSize(col) - 1, w.bedrock),
                    ColumnGetNthLevel(col, ColumnGetSize(col) - 1), 1),
          !.frontier.water_heightmap = Write3(@, offset, 0, 0, 0),
          !.column = ColumnClear(col)]
  ELSE [w EXCEPT
          !.frontier.water_heightmap =
             Write3(@, offset, ColumnGetNthBlock(col, ColumnGetSize(col) - 1, w.bedrock),
                    ColumnGetNthLevel(col, ColumnGetSize(col) - 1), 1),
          !.frontier.solid_heightmap =
             IF FrontierSolidBelow(col, w.bedrock, ColumnGetSize(col)) = Null THEN @
             ELSE Write3(@, offset,
                         FrontierSolidBelow(col, w.bedrock, ColumnGetSize(col)).block,
                         FrontierSolidBelow(col, w.bedrock, ColumnGetSize(col)).level, 0),
          !.column = ColumnClear(col)]

\* The loops over i and j of createLODMeshes, n counting the samples of the
\* quadrant whose first sample is at a = <<ax, az>>, lod apart.
RECURSIVE FrontierSample(_, _, _, _)
FrontierSample(w, a, lod, n) ==
  IF w.faults # {} \/ n >= FrontierSide * FrontierSide THEN w
  ELSE FrontierSample(
         FrontierSampled(
           w,
           ColumnApply(w.column,
                       LoaderOps(w.loadFrontier,
                                 a[1] + (n \div FrontierSide) * lod,
                                 a[2] + (n % FrontierSide) * lod),
                       1),
           3 * (((n \div FrontierSide) + 1)
                  + ((n % FrontierSide) + 1) * (FrontierSide + 2))),
         a, lod, n + 1)

FrontierMeshedWater(solid, key) ==
  [solid |-> solid.mesh,
   water |-> MesherFrontier(solid.w, solid.w.frontier.water_heightmap,
                            solid.w.frontier.meshes[key].water, key, "lod water")]

FrontierMeshedStore(built, key) ==
  LODPut(built.water.w, key,
         [built.water.w.frontier.meshes[key]
            EXCEPT !.solid = built.solid, !.water = built.water.mesh])

\* The two meshFrontier calls that close a quadrant.
FrontierMeshQuadrant(w, key) ==
  FrontierMeshedStore(
    FrontierMeshedWater(
      MesherFrontier(w, w.frontier.solid_heightmap, w.frontier.meshes[key].solid,
                     key, "lod solid"),
      key),
    key)

\* The loop over the quadrants k of createLODMeshes; at = <<x, z>>.
RECURSIVE FrontierQuadrants(_, _, _, _)
FrontierQuadrants(w, chunk, at, k) ==
  IF w.faults # {} \/ k >= 4 THEN w
  ELSE FrontierQuadrants(
         FrontierMeshQuadrant(
           FrontierSample(
             w,
             <<at[1] + (IF And(k, 1) # 0 THEN 0 ELSE -Pow2(kChunkBits + chunk.level))
                 + (kFrontierLOD * Pow2(chunk.level)) \div 2,
               at[2] + (IF And(k, 3) >= 2 THEN 0 ELSE -Pow2(kChunkBits + chunk.level))
                 + (kFrontierLOD * Pow2(chunk.level)) \div 2>>,
             kFrontierLOD * Pow2(chunk.level), 0),
           chunk.mesh),
         chunk, at, k + 1)

FrontierCreateLODMeshes(w, chunk) ==
  IF w.loadFrontier = Null THEN w
  ELSE [FrontierQuadrants(
          Fault(Fault(w, kFrontierLOD % 2 = 0, "assert in createLODMeshes"),
                RegistrySolid(w.bedrock), "assert in createLODMeshes"),
          chunk,
          <<(2 * chunk.cx + 1) * Pow2(kChunkBits + chunk.level),
            (2 * chunk.cz + 1) * Pow2(kChunkBits + chunk.level)>>,
          0)
          EXCEPT !.frontier.meshes[chunk.mesh].meshed[LODIndex(chunk.cx, chunk.cz)] = TRUE]

\* The key of getOrCreateMultiMesh.
FrontierMeshKey(cx, cz, level) ==
  (And(cz, Pow2(12) - 1) * Pow2(12) + And(cx, Pow2(12) - 1)) * kFrontierLevels + level

FrontierGetOrCreateMultiMesh(w, cx, cz, level) ==
  IF FrontierMeshKey(cx, cz, level) \in DOMAIN w.frontier.meshes THEN w
  ELSE [w EXCEPT !.frontier.meshes =
          [key \in DOMAIN @ \cup {FrontierMeshKey(cx, cz, level)} |->
             IF key \in DOMAIN @ THEN @[key] ELSE LODMultiMeshNew]]

\* createFrontierChunk and the level.set that follows it.
FrontierCreateFrontierChunk(w, cx, cz, l) ==
  LET made == FrontierGetOrCreateMultiMesh(w, Shr(cx, kMultiMeshBits), Shr(cz, kMultiMeshBits), l)
  IN IF w.frontier.levels[l].elements[CircleIndex(w.frontier.levels[l], cx, cz)] = Null
     THEN [made EXCEPT !.frontier.levels[l].elements[CircleIndex(w.frontier.levels[l], cx, cz)] =
                         FrontierChunkNew(cx, cz, l,
                                          FrontierMeshKey(Shr(cx, kMultiMeshBits),
                                                          Shr(cz, kMultiMeshBits), l))]
     ELSE Fault(made, FALSE, "assert in Circle.set")

\* The closure `meshed` of computeLODAtLevel.
FrontierMeshed(w, l, dx, dz) ==
  IF l > 0
  THEN FrontierGet(w, l - 1, dx, dz) # Null
       /\ FrontierChunkHasMesh(w, FrontierGet(w, l - 1, dx, dz))
  ELSE WorldGetChunk(w, dx, dz) # Null /\ ChunkHasMesh(WorldGetChunk(w, dx, dz))

FrontierMask(w, l, cx, cz) ==
  (IF FrontierMeshed(w, l, 2 * cx, 2 * cz) THEN 1 ELSE 0)
    + (IF FrontierMeshed(w, l, 2 * cx + 1, 2 * cz) THEN 2 ELSE 0)
    + (IF FrontierMeshed(w, l, 2 * cx, 2 * cz + 1) THEN 4 ELSE 0)
    + (IF FrontierMeshed(w, l, 2 * cx + 1, 2 * cz + 1) THEN 8 ELSE 0)

\* The end of the callback of computeLODAtLevel, lod being in the ring;
\* s = [w, counter].
FrontierShowLOD(s, lod, mask) ==
  IF mask # 15 /\ ~FrontierChunkHasMesh(s.w, lod)
  THEN [w |-> LODShow(FrontierCreateLODMeshes(s.w, lod), lod.mesh,
                      LODIndex(lod.cx, lod.cz), mask),
        counter |-> s.counter + 1]
  ELSE [w |-> LODShow(s.w, lod.mesh, LODIndex(lod.cx, lod.cz), mask),
        counter |-> s.counter]

\* A callback that creates every tile that is not hidden, counter or not.
FrontierVisitMaskedUnthrottled(s, l, cx, cz, mask) ==
  IF FrontierGet(s.w, l, cx, cz) # Null
  THEN FrontierShowLOD(s, FrontierGet(s.w, l, cx, cz), mask)
  ELSE IF mask # 15
  THEN FrontierShowLOD(
         [w |-> FrontierCreateFrontierChunk(s.w, cx, cz, l), counter |-> s.counter],
         FrontierChunkNew(cx, cz, l,
                          FrontierMeshKey(Shr(cx, kMultiMeshBits),
                                          Shr(cz, kMultiMeshBits), l)),
         mask)
  ELSE s

\* A callback that creates only tiles with no child meshed.
FrontierVisitMaskedOnlyUnmasked(s, l, cx, cz, mask) ==
  IF FrontierGet(s.w, l, cx, cz) # Null
  THEN FrontierShowLOD(s, FrontierGet(s.w, l, cx, cz), mask)
  ELSE IF mask = 0 /\ s.counter < kNumLODChunksToMeshPerFrame
  THEN FrontierShowLOD(
         [w |-> FrontierCreateFrontierChunk(s.w, cx, cz, l), counter |-> s.counter],
         FrontierChunkNew(cx, cz, l,
                          FrontierMeshKey(Shr(cx, kMultiMeshBits),
                                          Shr(cz, kMultiMeshBits), l)),
         mask)
  ELSE s

\* A callback whose counter holds back every absent tile.
FrontierVisitMaskedThrottlesAll(s, l, cx, cz, mask) ==
  IF FrontierGet(s.w, l, cx, cz) # Null
  THEN FrontierShowLOD(s, FrontierGet(s.w, l, cx, cz), mask)
  ELSE IF mask # 15 /\ s.counter < kNumLODChunksToMeshPerFrame
  THEN FrontierShowLOD(
         [w |-> FrontierCreateFrontierChunk(s.w, cx, cz, l), counter |-> s.counter],
         FrontierChunkNew(cx, cz, l,
                          FrontierMeshKey(Shr(cx, kMultiMeshBits),
                                          Shr(cz, kMultiMeshBits), l)),
         mask)
  ELSE s

FrontierVisitMasked(s, l, cx, cz, mask) ==
  IF FrontierGet(s.w, l, cx, cz) # Null
  THEN FrontierShowLOD(s, FrontierGet(s.w, l, cx, cz), mask)
  ELSE IF mask # 15 /\ (s.counter < kNumLODChunksToMeshPerFrame \/ mask # 0)
  THEN FrontierShowLOD(
         [w |-> FrontierCreateFrontierChunk(s.w, cx, cz, l), counter |-> s.counter],
         FrontierChunkNew(cx, cz, l,
                          FrontierMeshKey(Shr(cx, kMultiMeshBits),
                                          Shr(cz, kMultiMeshBits), l)),
         mask)
  ELSE s

\* The callback of the each in computeLODAtLevel.
FrontierVisit(s, l, cx, cz) ==
  FrontierVisitMasked(s, l, cx, cz, FrontierMask(s.w, l, cx, cz))

RECURSIVE FrontierComputeFrom(_, _, _)
FrontierComputeFrom(s, l, n) ==
  IF s.w.faults # {} \/ n > Len(s.w.frontier.levels[l].points) THEN s.w
  ELSE FrontierComputeFrom(
         FrontierVisit(s, l,
                       s.w.frontier.levels[l].points[n][1] + s.w.frontier.levels[l].center_x,
                       s.w.frontier.levels[l].points[n][2] + s.w.frontier.levels[l].center_z),
         l, n + 1)

FrontierComputeLODAtLevel(w, l) == FrontierComputeFrom([w |-> w, counter |-> 0], l, 1)

RECURSIVE FrontierRemeshFrom(_, _)
FrontierRemeshFrom(w, l) ==
  IF w.faults # {} \/ l >= kFrontierLevels THEN w
  ELSE FrontierRemeshFrom(FrontierComputeLODAtLevel(w, l), l + 1)

FrontierRemeshFrontier(w) == FrontierRemeshFrom(w, 0)

\* -------------------------------------------------------------------------
\* World

\* new World(registry, renderer), with chunks = new Circle(radius + 0.5).
WorldNew(radius) ==
  [chunks |-> CircleNew(2 * radius + 1, 2),
   column |-> ColumnNew,
   bedrock |-> kEmptyBlock,
   loadChunk |-> Null,
   loadFrontier |-> Null,
   frontier |-> FrontierNew(radius),
   meshes |-> {},
   faults |-> {},
   disposed |-> <<>>]

\* A getBlock that takes a missing chunk for empty space.
WorldGetBlockEmptyWhenAbsent(w, x, y, z) ==
  IF y < 0 THEN w.bedrock
  ELSE IF y >= kWorldHeight THEN kEmptyBlock
  ELSE IF WorldGetChunk(w, Shr(x, kChunkBits), Shr(z, kChunkBits)) # Null
  THEN ChunkGetBlock(WorldGetChunk(w, Shr(x, kChunkBits), Shr(z, kChunkBits)), x, y, z)
  ELSE kEmptyBlock

\* A getBlock that looks for the chunk before it looks at the height.
WorldGetBlockChunkFirst(w, x, y, z) ==
  IF WorldGetChunk(w, Shr(x, kChunkBits), Shr(z, kChunkBits)) = Null THEN kUnknownBlock
  ELSE IF y < 0 THEN w.bedrock
  ELSE IF y >= kWorldHeight THEN kEmptyBlock
  ELSE ChunkGetBlock(WorldGetChunk(w, Shr(x, kChunkBits), Shr(z, kChunkBits)), x, y, z)

WorldGetBlock(w, x, y, z) ==
  IF y < 0 THEN w.bedrock
  ELSE IF y >= kWorldHeight THEN kEmptyBlock
  ELSE IF WorldGetChunk(w, Shr(x, kChunkBits), Shr(z, kChunkBits)) # Null
  THEN ChunkGetBlock(WorldGetChunk(w, Shr(x, kChunkBits), Shr(z, kChunkBits)), x, y, z)
  ELSE kUnknownBlock

WorldGetHeight(w, x, z) ==
  IF WorldGetChunk(w, Shr(x, kChunkBits), Shr(z, kChunkBits)) # Null
  THEN ChunkGetHeight(WorldGetChunk(w, Shr(x, kChunkBits), Shr(z, kChunkBits)), x, z)
  ELSE 0

WorldSetBlock(w, x, y, z, block) ==
  IF ~(0 <= y /\ y < kWorldHeight) THEN w
  ELSE IF WorldGetChunk(w, Shr(x, kChunkBits), Shr(z, kChunkBits)) # Null
  THEN ChunkSetBlock(w, WorldGetChunk(w, Shr(x, kChunkBits), Shr(z, kChunkBits)),
                     x, y, z, block)
  ELSE w

WorldSetLoader(w, bedrock, loadChunk, loadFrontier) ==
  [w EXCEPT !.bedrock = bedrock,
            !.loadChunk = loadChunk,
            !.loadFrontier = IF loadFrontier # Null THEN loadFrontier ELSE loadChunk]

\* The callback of the each in World.recenter, at a coordinate that holds no
\* chunk.
WorldLoadAt(w, at) ==
  LET made == ChunkLoad(w, at[1], at[2], w.loadChunk)
  IN ChunksSet(made.w, at[1], at[2], made.chunk)

\* The each of World.recenter from visit n on, with `loaded` chunks made so
\* far.  Visits of coordinates that hold a chunk return at once and are
\* stepped over.
\* A recenter that goes on to the next missing chunk whatever it has loaded.
RECURSIVE WorldLoadFromUnbudgeted(_, _, _, _)
WorldLoadFromUnbudgeted(w, visits, n, loaded) ==
  IF w.faults # {} \/ n = 0 THEN w
  ELSE LET made == WorldLoadAt(w, visits[n])
       IN WorldLoadFromUnbudgeted(
            made, visits,
            FirstVisit({m \in (n + 1) .. Len(visits) :
                          WorldGetChunk(made, visits[m][1], visits[m][2]) = Null}),
            loaded + 1)

RECURSIVE WorldLoadFrom(_, _, _, _)
WorldLoadFrom(w, visits, n, loaded) ==
  IF w.faults # {} \/ n = 0 THEN w
  ELSE IF loaded + 1 = kNumChunksToLoadPerFrame THEN WorldLoadAt(w, visits[n])
  ELSE LET made == WorldLoadAt(w, visits[n])
       IN WorldLoadFrom(
            made, visits,
            FirstVisit({m \in (n + 1) .. Len(visits) :
                          WorldGetChunk(made, visits[m][1], visits[m][2]) = Null}),
            loaded + 1)

WorldRecenterLoad(w, visits) ==
  IF w.loadChunk = Null THEN w
  ELSE WorldLoadFrom(
         w, visits,
         FirstVisit({m \in 1 .. Len(visits) :
                       WorldGetChunk(w, visits[m][1], visits[m][2]) = Null}),
         0)

WorldRecenter(w, x, y, z) ==
  WorldRecenterLoad(
    FrontierCenter(ChunksCenter(w, Shr(x, kChunkBits), Shr(z, kChunkBits)),
                   Shr(x, kChunkBits), Shr(z, kChunkBits)),
    CircleEach(w.chunks, Shr(x, kChunkBits), Shr(z, kChunkBits)))

\* The each of World.remesh from visit n on, with `meshed` chunks remeshed
\* so far.  total counts the visits, so at visit n it is n; visits of
\* coordinates with nothing to remesh are stepped over.
WorldNeedsRemesh(w, cx, cz) ==
  WorldGetChunk(w, cx, cz) # Null /\ ChunkNeedsRemesh(WorldGetChunk(w, cx, cz))

\* A remesh whose budget holds from the first chunk on.
RECURSIVE WorldRemeshFromBudgeted(_, _, _, _)
WorldRemeshFromBudgeted(w, visits, n, meshed) ==
  IF w.faults # {} \/ n = 0 THEN w
  ELSE IF meshed >= kNumChunksToMeshPerFrame THEN w
  ELSE LET done == ChunkRemeshChunk(w, WorldGetChunk(w, visits[n][1], visits[n][2]))
       IN WorldRemeshFromBudgeted(
            done, visits,
            FirstVisit({m \in (n + 1) .. Len(visits) :
                          WorldNeedsRemesh(done, visits[m][1], visits[m][2])}),
            meshed + 1)

\* A remesh that stops at the tenth visit whatever it has remeshed.
RECURSIVE WorldRemeshFromNearestOnly(_, _, _, _)
WorldRemeshFromNearestOnly(w, visits, n, meshed) ==
  IF w.faults # {} \/ n = 0 THEN w
  ELSE IF n > 9 THEN w
  ELSE LET done == ChunkRemeshChunk(w, WorldGetChunk(w, visits[n][1], visits[n][2]))
       IN WorldRemeshFromNearestOnly(
            done, visits,
            FirstVisit({m \in (n + 1) .. Len(visits) :
                          WorldNeedsRemesh(done, visits[m][1], visits[m][2])}),
            meshed + 1)

\* A remesh that takes two chunks past the ninth visit.
RECURSIVE WorldRemeshFromTwoPastNinth(_, _, _, _)
WorldRemeshFromTwoPastNinth(w, visits, n, meshed) ==
  IF w.faults # {} \/ n = 0 THEN w
  ELSE IF n > 9 /\ meshed >= kNumChunksToMeshPerFrame + 1 THEN w
  ELSE LET done == ChunkRemeshChunk(w, WorldGetChunk(w, visits[n][1], visits[n][2]))
       IN WorldRemeshFromTwoPastNinth(
            done, visits,
            FirstVisit({m \in (n + 1) .. Len(visits) :
                          WorldNeedsRemesh(done, visits[m][1], visits[m][2])}),
            meshed + 1)

RECURSIVE WorldRemeshFrom(_, _, _, _)
WorldRemeshFrom(w, visits, n, meshed) ==
  IF w.faults # {} \/ n = 0 THEN w
  ELSE IF n > 9 /\ meshed >= kNumChunksToMeshPerFrame THEN w
  ELSE LET done == ChunkRemeshChunk(w, WorldGetChunk(w, visits[n][1], visits[n][2]))
       IN WorldRemeshFrom(
            done, visits,
            FirstVisit({m \in (n + 1) .. Len(visits) :
                          WorldNeedsRemesh(done, visits[m][1], visits[m][2])}),
            meshed + 1)

WorldRemesh(w) ==
  FrontierRemeshFrontier(
    LET visits == CircleEach(w.chunks, w.chunks.center_x, w.chunks.center_z)
    IN WorldRemeshFrom(
         w, visits,
         FirstVisit({m \in 1 .. Len(visits) :
                       WorldNeedsRemesh(w, visits[m][1], visits[m][2])}),
         0))

\* -------------------------------------------------------------------------
\* The state machine.

\* The viewpoints (x, z) the viewer stands at: the origin chunk, the chunk
\* next to it, and a chunk more than a ring side away whose slot is that of
\* chunk (1, 0).
ViewPoints ==
  {<<1, 1>>, <<kChunkWidth + 1, 0>>, <<9 * kChunkWidth, 1>>}

\* The viewer changes chunk at most MaxMoves times.
MaxMoves == 1

\* The edits: on the corner column of chunk (-1, 0) that borders chunks
\* (0, 0) and (-1, -1).
EditPoints == {<<-1, 0, 0>>}
EditBlocks == {kEmptyBlock, kStone}

VARIABLES chunks, column, bedrock, loadChunk, loadFrontier, frontier, meshes,
          faults, moves, env

vars == <<chunks, column, bedrock, loadChunk, loadFrontier, frontier, meshes,
          faults, moves, env>>

World ==
  [chunks |-> chunks, column |-> column, bedrock |-> bedrock,
   loadChunk |-> loadChunk, loadFrontier |-> loadFrontier, frontier |-> frontier,
   meshes |-> meshes, faults |-> faults, disposed |-> <<>>]

Holds(w) ==
  /\ chunks = w.chunks
  /\ column = w.column
  /\ bedrock = w.bedrock
  /\ loadChunk = w.loadChunk
  /\ loadFrontier = w.loadFrontier
  /\ frontier = w.frontier
  /\ meshes = w.meshes
  /\ faults = w.faults

Becomes(w) ==
  /\ chunks' = w.chunks
  /\ column' = w.column
  /\ bedrock' = w.bedrock
  /\ loadChunk' = w.loadChunk
  /\ loadFrontier' = w.loadFrontier
  /\ frontier' = w.frontier
  /\ meshes' = w.meshes
  /\ faults' = w.faults
  /\ moves' = IF w.chunks.center_x = chunks.center_x
                 /\ w.chunks.center_z = chunks.center_z
              THEN moves ELSE moves + 1

\* new Env(id): the pointer is not locked and shouldMesh is true.  remeshes
\* is a history field: the World.remesh calls since the last render that
\* ran.  The frame count, the camera, the entities and the renderer are not
\* part of the World's state and are left out.
EnvNew == [pointer |-> FALSE, shouldMesh |-> TRUE, remeshes |-> 0]

\* Env.render(dt).
EnvRender(e) ==
  IF ~e.pointer THEN e
  ELSE [e EXCEPT !.shouldMesh = TRUE, !.remeshes = 0]

\* An update that leaves shouldMesh set.
EnvUpdateKeepsShouldMesh(e, w) ==
  IF ~e.pointer THEN [env |-> e, w |-> w]
  ELSE IF ~e.shouldMesh THEN [env |-> e, w |-> w]
  ELSE [env |-> [e EXCEPT !.remeshes = @ + 1], w |-> WorldRemesh(w)]

\* Env.update(dt).
EnvUpdate(e, w) ==
  IF ~e.pointer THEN [env |-> e, w |-> w]
  ELSE IF ~e.shouldMesh THEN [env |-> e, w |-> w]
  ELSE [env |-> [e EXCEPT !.shouldMesh = FALSE, !.remeshes = @ + 1],
        w |-> WorldRemesh(w)]

\* new World(registry, renderer)
Init ==
  /\ Holds(WorldNew(kChunkRadius))
  /\ moves = 0
  /\ env = EnvNew

SetLoader ==
  /\ faults = {}
  /\ \E w \in {WorldSetLoader(World, kStone, TerrainLoader, Null)} : Becomes(w)
  /\ UNCHANGED env

Recenter ==
  /\ faults = {}
  /\ \E v \in ViewPoints :
       /\ \/ moves < MaxMoves
          \/ /\ Shr(v[1], kChunkBits) = chunks.center_x
             /\ Shr(v[2], kChunkBits) = chunks.center_z
       /\ \E w \in {WorldRecenter(World, v[1], 0, v[2])} : Becomes(w)
  /\ UNCHANGED env

SetBlock ==
  /\ faults = {}
  /\ \E p \in EditPoints, block \in EditBlocks :
       \E w \in {WorldSetBlock(World, p[1], p[2], p[3], block)} : Becomes(w)
  /\ UNCHANGED env

Remesh ==
  /\ faults = {}
  /\ \E w \in {WorldRemesh(World)} : Becomes(w)
  /\ UNCHANGED env

Next == SetLoader \/ Recenter \/ Remesh \/ SetBlock

Spec == Init /\ [][Next]_vars

\* -------------------------------------------------------------------------
\* Loading chunks with any loader: the world after setLoader with a loader
\* that makes, on each column of a chunk, one of ColumnPrograms' sequences
\* of push and overwrite calls, then recenter at the origin until
\* ColumnChunks chunks are there.

ColumnPrograms ==
  {<<>>,
   << <<"push", kStone, 1>> >>,
   << <<"push", kStone, kWorldHeight>> >>,
   << <<"push", kStone, 1>>, <<"push", kStone, kWorldHeight>> >>,
   << <<"push", kStone, 1>>, <<"push", kWater, kWorldHeight>> >>,
   << <<"push", kStone, kWorldHeight>>, <<"overwrite", kStone, 0>> >>,
   << <<"push", kStone, 1>>, <<"overwrite", kStone, 1>> >>}

ColumnLoaders ==
  {[name |-> "columns", columns |-> f] :
     f \in [1 .. (kChunkWidth * kChunkWidth) -> ColumnPrograms]}

ColumnChunks == 2

Slots == DOMAIN chunks.elements
Live == {i \in Slots : chunks.elements[i] # Null}

InitColumn ==
  /\ \E loader \in ColumnLoaders : Holds(WorldSetLoader(WorldNew(kChunkRadius), kStone, loader, Null))
  /\ moves = 0
  /\ env = EnvNew

LoadChunk ==
  /\ faults = {}
  /\ Cardinality(Live) < ColumnChunks
  /\ \E w \in {WorldRecenter(World, 0, 0, 0)} : Becomes(w)
  /\ UNCHANGED env

NextColumn == LoadChunk

SpecColumn == InitColumn /\ [][NextColumn]_vars

\* -------------------------------------------------------------------------
\* A wider ring, in which chunks past the ninth of the ascending-distance
\* order become ready: the viewer stays in the origin chunk.

kWideRadius == 3

InitWide ==
  /\ Holds(WorldNew(kWideRadius))
  /\ moves = 0
  /\ env = EnvNew

Stay ==
  /\ faults = {}
  /\ \E w \in {WorldRecenter(World, 0, 0, 0)} : Becomes(w)
  /\ UNCHANGED env

NextWide == SetLoader \/ Stay \/ Remesh

SpecWide == InitWide /\ [][NextWide]_vars

\* -------------------------------------------------------------------------
\* The frame loop with a loader installed and the viewer standing still:
\* every frame calls World.recenter and World.remesh, so each is taken again
\* and again for as long as it has something to do.  The two fairness
\* conditions are weak fairness of Stay and of Remesh, with the enabling
\* condition of each written out as the state predicate it is: the call
\* would change the world.

InitRetry ==
  /\ Holds(WorldSetLoader(WorldNew(kWideRadius), kStone, TerrainLoader, Null))
  /\ moves = 0
  /\ env = EnvNew

StayPending == faults = {} /\ ~Holds(WorldRecenter(World, 0, 0, 0))

RemeshPending == faults = {} /\ ~Holds(WorldRemesh(World))

SpecRetry ==
  /\ InitRetry
  /\ [][Stay \/ Remesh]_vars
  /\ ([]<>~StayPending \/ []<><<Stay>>_vars)
  /\ ([]<>~RemeshPending \/ []<><<Remesh>>_vars)

\* -------------------------------------------------------------------------
\* The same frame loop over terrain that meshes in every chunk: a loader
\* that pushes one block of stone in every column, so that all 4 children of
\* a frontier tile can be meshed.

StoneLoader ==
  [name |-> "columns",
   columns |-> [k \in 1 .. (kChunkWidth * kChunkWidth) |-> << <<"push", kStone, 1>> >>]]

InitStill ==
  /\ Holds(WorldSetLoader(WorldNew(kChunkRadius), kStone, StoneLoader, Null))
  /\ moves = 0
  /\ env = EnvNew

SpecStill ==
  /\ InitStill
  /\ [][Stay \/ Remesh]_vars
  /\ ([]<>~StayPending \/ []<><<Stay>>_vars)
  /\ ([]<>~RemeshPending \/ []<><<Remesh>>_vars)

\* -------------------------------------------------------------------------
\* The Env over its World: Timing calls update and render in any order and
\* any number of times, the browser locks and unlocks the pointer, and the
\* game installs a loader, recenters and refreshes.

Update ==
  /\ faults = {}
  /\ \E r \in {EnvUpdate(env, World)} : Becomes(r.w) /\ env' = r.env

Render ==
  /\ faults = {}
  /\ env' = EnvRender(env)
  /\ UNCHANGED <<chunks, column, bedrock, loadChunk, loadFrontier, frontier,
                 meshes, faults, moves>>

\* Env.refresh(): an update and a render with the pointer taken as locked.
Refresh ==
  /\ faults = {}
  /\ \E r \in {EnvUpdate([env EXCEPT !.pointer = TRUE], World)} :
       /\ Becomes(r.w)
       /\ env' = IF r.w.faults # {} THEN r.env
                 ELSE [EnvRender(r.env) EXCEPT !.pointer = env.pointer]

\* container.inputs.pointer follows the pointer lock.
SetPointer ==
  /\ faults = {}
  /\ env' = [env EXCEPT !.pointer = ~env.pointer]
  /\ UNCHANGED <<chunks, column, bedrock, loadChunk, loadFrontier, frontier,
                 meshes, faults, moves>>

SpecEnv ==
  Init /\ [][SetLoader \/ Stay \/ Update \/ Render \/ Refresh \/ SetPointer]_vars


\* -------------------------------------------------------------------------
\* Properties.

Lateral == {<<1, 0>>, <<-1, 0>>, <<0, 1>>, <<0, -1>>}

\* The chunk coordinates of the viewpoints.
Centers == {<<Shr(v[1], kChunkBits), Shr(v[2], kChunkBits)>> : v \in ViewPoints}

\* Is the chunk inside the radius envelope of the center t?
Inside(chunk, t) ==
  CircleInEnvelope(chunks, Abs(chunk.cx - t[1]), Abs(chunk.cz - t[2]))

Count(seq, x) == Cardinality({n \in DOMAIN seq : seq[n] = x})

\* The lateral neighbors of a chunk that are in the ring.
Around(chunk) ==
  {d \in Lateral : WorldGetChunk(World, chunk.cx + d[1], chunk.cz + d[2]) # Null}

\* C1: a chunk in the ring is ready iff it has exactly 4 neighbor completions
\* recorded, one per lateral neighbor in the ring; and disposing any one
\* lateral neighbor of a ready chunk leaves that chunk, when the dispose call
\* returns, not ready, with both mesh handles disposed and set to null.
C1_ReadyIffFourNeighbors ==
  \A i \in Live :
    LET chunk == chunks.elements[i]
    IN /\ chunk.ready <=> (chunk.neighbors = 4)
       /\ chunk.neighbors = Cardinality(Around(chunk))
       /\ chunk.ready =>
            \A d \in Around(chunk) :
              LET after == ChunkDispose(
                             World, WorldGetChunk(World, chunk.cx + d[1], chunk.cz + d[2]))
              IN /\ ~after.chunks.elements[i].ready
                 /\ after.chunks.elements[i].solid = Null
                 /\ after.chunks.elements[i].water = Null
                 /\ {chunk.solid, chunk.water} \cap after.meshes = {}

\* A ready chunk holding a mesh that a move of the viewer leaves in the ring
\* while a neighbor of it is disposed.
C1_Witness ==
  \E i \in Live, t \in Centers :
    LET chunk == chunks.elements[i]
        after == ChunksCenter(World, t[1], t[2])
    IN /\ chunk.ready
       /\ chunk.solid # Null
       /\ after.disposed # <<>>
       /\ \E d \in Lateral : <<chunk.cx + d[1], chunk.cz + d[2]>> = after.disposed[1]
       /\ after.chunks.elements[i] # Null
       /\ ~after.chunks.elements[i].ready
       /\ after.chunks.elements[i].solid = Null

\* C2: Circle.get returns an element only for coordinates inside the radius
\* envelope of the last center, every element sits in the slot of its own
\* coordinates, and the ring never holds more elements than the disc has
\* offsets.
C2_GetOnlyInsideEnvelope ==
  /\ \A i \in Live :
       /\ Inside(chunks.elements[i], <<chunks.center_x, chunks.center_z>>)
       /\ CircleIndex(chunks, chunks.elements[i].cx, chunks.elements[i].cz) = i
  /\ \A dx, dz \in (-(chunks.floor + 1)) .. (chunks.floor + 1) :
       CircleGet(chunks, chunks.center_x + dx, chunks.center_z + dz)
           # Null
         => CircleInEnvelope(chunks, Abs(dx), Abs(dz))
  /\ Cardinality(Live) <= Len(chunks.points)

\* The ring is full again after the viewer moved.
C2_Witness ==
  /\ moves = 1
  /\ Cardinality(Live) = Len(chunks.points)

\* C3: Circle.center(cx, cz) calls dispose exactly once on, and clears the
\* slot of, every element outside the envelope of the new center; when it
\* returns no element lies outside that envelope and the center is (cx, cz).
C3_CenterEvictsOutside ==
  \A t \in Centers :
    LET after == ChunksCenter(World, t[1], t[2])
    IN /\ after.faults = faults
       /\ after.chunks.center_x = t[1]
       /\ after.chunks.center_z = t[2]
       /\ \A i \in Live :
            ~Inside(chunks.elements[i], t) =>
              /\ after.chunks.elements[i] = Null
              /\ Count(after.disposed,
                       <<chunks.elements[i].cx, chunks.elements[i].cz>>) = 1
       /\ \A i \in Slots :
            after.chunks.elements[i] # Null => Inside(after.chunks.elements[i], t)

\* A full ring of which a move evicts some chunks and keeps others.
C3_Witness ==
  /\ Cardinality(Live) = Len(chunks.points)
  /\ \E t \in Centers :
       /\ Len(ChunksCenter(World, t[1], t[2]).disposed) > 0
       /\ Len(ChunksCenter(World, t[1], t[2]).disposed) < Cardinality(Live)

\* C4: Circle.center(cx, cz) leaves every element inside the envelope of the
\* new center where it is: it is not disposed, stays in its slot, is the
\* same chunk with the same voxels, and get returns it before and after.
C4_CenterKeepsInside ==
  \A t \in Centers :
    LET after == ChunksCenter(World, t[1], t[2])
    IN \A i \in Live :
         Inside(chunks.elements[i], t) =>
           LET old == chunks.elements[i]
               new == after.chunks.elements[i]
           IN /\ new # Null
              /\ new.cx = old.cx /\ new.cz = old.cz
              /\ new.voxels = old.voxels
              /\ new.heightmap = old.heightmap
              /\ new.equilevels = old.equilevels
              /\ Count(after.disposed, <<old.cx, old.cz>>) = 0
              /\ CircleGet(chunks, old.cx, old.cz) = old
              /\ CircleGet(after.chunks, old.cx, old.cz) = new

\* A ready chunk with a mesh that stays ready, mesh and all, through a move
\* that evicts other chunks.
C4_Witness ==
  \E t \in Centers, i \in Live :
    LET after == ChunksCenter(World, t[1], t[2])
    IN /\ after.disposed # <<>>
       /\ chunks.elements[i].ready
       /\ chunks.elements[i].solid # Null
       /\ after.chunks.elements[i] = chunks.elements[i]

\* The slots a step puts a new chunk in.
Constructed ==
  {i \in Slots :
     /\ chunks'.elements[i] # Null
     /\ \/ chunks.elements[i] = Null
        \/ chunks.elements[i].cx # chunks'.elements[i].cx
        \/ chunks.elements[i].cz # chunks'.elements[i].cz}

\* C5: a call of World.recenter constructs at most kNumChunksToLoadPerFrame
\* chunks, none without a loader, and a chunk it constructs is the first
\* coordinate, in the ring's ascending-distance order from the new center,
\* that held no chunk.
C5_RecenterLoadsFirstMissing ==
  [][/\ Cardinality(Constructed) <= kNumChunksToLoadPerFrame
     /\ loadChunk = Null => Constructed = {}
     /\ \A i \in Constructed :
          LET visits == CircleEach(chunks, chunks'.center_x, chunks'.center_z)
          IN \E n \in DOMAIN visits :
               /\ visits[n] = <<chunks'.elements[i].cx, chunks'.elements[i].cz>>
               /\ \A m \in 1 .. (n - 1) :
                    CircleGet(chunks, visits[m][1], visits[m][2]) # Null]_vars

\* After a move from a full ring, the one chunk made is the nearest missing
\* one, straight ahead, and its farther neighbor is still missing.
C5_Witness ==
  /\ moves = 1
  /\ chunks.center_x = 1 /\ chunks.center_z = 0
  /\ Cardinality(Live) = Len(chunks.points) - 4
  /\ CircleGet(chunks, kChunkRadius + 1, 0) # Null
  /\ CircleGet(chunks, kChunkRadius + 1, 1) = Null

\* The slots whose chunk a step remeshes: dirty before, clean after.
Remeshed ==
  {i \in Live :
     /\ chunks'.elements[i] # Null
     /\ chunks'.elements[i].cx = chunks.elements[i].cx
     /\ chunks'.elements[i].cz = chunks.elements[i].cz
     /\ chunks.elements[i].dirty
     /\ ~chunks'.elements[i].dirty}

\* The slots whose chunk is dirty and ready.
Needy == {i \in Live : ChunkNeedsRemesh(chunks.elements[i])}

\* The place of a chunk in the ascending-distance order from the center.
Position(i) ==
  CHOOSE n \in DOMAIN chunks.points :
    CircleEach(chunks, chunks.center_x, chunks.center_z)[n]
      = <<chunks.elements[i].cx, chunks.elements[i].cz>>

\* C6, as stated: a call of World.remesh remeshes at most
\* kNumChunksToMeshPerFrame chunks.
C6_RemeshAtMostBudget ==
  [][Cardinality(Remeshed) <= kNumChunksToMeshPerFrame]_vars

\* C6, amended: a call of World.remesh remeshes only dirty and ready chunks;
\* it remeshes every such chunk among the first 9 of the ascending-distance
\* order, whatever the budget, and one past the ninth iff fewer than
\* kNumChunksToMeshPerFrame chunks were remeshed before it in this call.
C6_RemeshBudgetPastNinth ==
  [][/\ Remeshed \subseteq Needy
     /\ Remeshed # {} =>
          \A i \in Needy :
            i \in Remeshed <=>
              \/ Position(i) <= 9
              \/ Cardinality({j \in Remeshed : Position(j) < Position(i)})
                   < kNumChunksToMeshPerFrame]_vars

\* The nine nearest chunks are clean, several chunks past them are dirty and
\* ready, and a remesh takes exactly one of those.
C6_Witness ==
  /\ \A i \in Needy : Position(i) > 9
  /\ Cardinality(Needy) > kNumChunksToMeshPerFrame
  /\ Cardinality({i \in Needy : ~WorldRemesh(World).chunks.elements[i].dirty})
       = kNumChunksToMeshPerFrame
  /\ \E i \in Live : Position(i) <= 9 /\ ~chunks.elements[i].dirty

\* C7: remeshChunk is only invoked on a chunk that is dirty and ready: its
\* assertion never fails, a chunk that is not ready is never clean, and on
\* any chunk World.remesh would take, remeshChunk returns with the chunk not
\* dirty.
C7_RemeshOnlyDirtyReady ==
  /\ "assert in remeshChunk" \notin faults
  /\ \A i \in Live :
       /\ ~chunks.elements[i].dirty => chunks.elements[i].ready
       /\ ChunkNeedsRemesh(chunks.elements[i]) =>
            LET after == ChunkRemeshChunk(World, chunks.elements[i])
            IN /\ after.faults = faults
               /\ ~after.chunks.elements[i].dirty

\* A chunk that remeshChunk has left clean, with its mesh, next to a chunk
\* that is dirty and not ready.
C7_Witness ==
  /\ \E i \in Live :
       /\ ~chunks.elements[i].dirty
       /\ chunks.elements[i].solid # Null
  /\ \E i \in Live : chunks.elements[i].dirty /\ ~chunks.elements[i].ready

\* The handles the chunks of the ring hold.
ChunkHandles ==
  UNION {{chunks.elements[i].solid, chunks.elements[i].water} : i \in Live} \ {Null}

\* The places, a slot and a field, that hold the handle h.
Holders(h) ==
  {<<i, "solid">> : i \in {j \in Live : chunks.elements[j].solid = h}}
    \cup {<<i, "water">> : i \in {j \in Live : chunks.elements[j].water = h}}

\* C8: between World operations the chunk mesh handles the mesher has handed
\* out and nobody has disposed are exactly the handles held by the chunks of
\* the ring, each held in one place; no handle is disposed twice; and a
\* chunk that is not ready holds no handle.
C8_ChunkMeshesOwnedOnce ==
  /\ {h \in meshes : h.kind \in {"solid", "water"}} = ChunkHandles
  /\ \A h \in ChunkHandles : Cardinality(Holders(h)) = 1
  /\ "dispose of a disposed mesh" \notin faults
  /\ \A i \in Live :
       ~chunks.elements[i].ready =>
         chunks.elements[i].solid = Null /\ chunks.elements[i].water = Null

\* A ring from which one move evicts a chunk that holds a handle, disposing
\* it, and another move takes the handle of a chunk that stays.
C8_Witness ==
  /\ \E t \in Centers, i \in Live :
       /\ chunks.elements[i].solid # Null
       /\ ChunksCenter(World, t[1], t[2]).chunks.elements[i] = Null
       /\ chunks.elements[i].solid \notin ChunksCenter(World, t[1], t[2]).meshes
  /\ \E t \in Centers, i \in Live :
       /\ chunks.elements[i].water # Null
       /\ ChunksCenter(World, t[1], t[2]).chunks.elements[i] # Null
       /\ ChunksCenter(World, t[1], t[2]).chunks.elements[i].water = Null
       /\ chunks.elements[i].water \notin ChunksCenter(World, t[1], t[2]).meshes

\* Do all columns of the chunk hold the same block at height y?
Uniform(chunk, y) ==
  \A x, z \in 0 .. (kChunkWidth - 1) :
    chunk.voxels[TensorIndex(x, y, z)] = chunk.voxels[TensorIndex(0, y, 0)]

\* Does the loader call overwrite at height y on some column of a chunk?
Overwritten(y) ==
  \E k \in DOMAIN loadChunk.columns :
    \E n \in DOMAIN loadChunk.columns[k] :
      loadChunk.columns[k][n][1] = "overwrite" /\ loadChunk.columns[k][n][3] = y

RoundTripColumns == ({-kChunkWidth - 1, -1, 0} \X {-1, 0}) \cup {<<1, 1>>}
RoundTripBlocks == {kEmptyBlock, kStone, kWater}

\* C10: with the containing chunk in the ring and 0 <= y < kWorldHeight,
\* World.setBlock(x, y, z, b) followed by World.getBlock(x, y, z) returns b,
\* and no other voxel of any chunk changes.
C10_SetBlockGetBlock ==
  \A p \in RoundTripColumns, y \in 0 .. (kWorldHeight - 1), b \in RoundTripBlocks :
    WorldGetChunk(World, Shr(p[1], kChunkBits), Shr(p[2], kChunkBits)) # Null =>
      LET after == WorldSetBlock(World, p[1], y, p[2], b)
          at == CircleIndex(chunks, Shr(p[1], kChunkBits), Shr(p[2], kChunkBits))
          index == TensorIndex(And(p[1], kChunkMask), y, And(p[2], kChunkMask))
      IN /\ WorldGetBlock(after, p[1], y, p[2]) = b
         /\ after.chunks.elements[at].voxels
              = [chunks.elements[at].voxels EXCEPT ![index] = b]
         /\ \A i \in Slots \ {at} :
              IF chunks.elements[i] = Null THEN after.chunks.elements[i] = Null
              ELSE /\ after.chunks.elements[i] # Null
                   /\ after.chunks.elements[i].voxels = chunks.elements[i].voxels

\* An edit has put stone in the empty chunk (-1, 0), and a further edit
\* there changes the block again.
C10_Witness ==
  /\ WorldGetBlock(World, -1, 0, 0) = kStone
  /\ WorldGetBlock(WorldSetBlock(World, -1, 0, 0, kWater), -1, 0, 0) = kWater
  /\ WorldGetBlock(World, -1, 1, 0) = kEmptyBlock

\* Is the chunk at (cx, cz) the lateral neighbor of the chunk at (tx, tz)
\* across a border that the local column (xm, zm) lies on?
AcrossBorder(cx, cz, tx, tz, xm, zm) ==
  \/ xm = 0 /\ cx = tx - 1 /\ cz = tz
  \/ xm = kChunkMask /\ cx = tx + 1 /\ cz = tz
  \/ zm = 0 /\ cx = tx /\ cz = tz - 1
  \/ zm = kChunkMask /\ cx = tx /\ cz = tz + 1

\* The effect of World.setBlock(x, y, z, b) on the dirty flags: a write
\* that changes the voxel dirties its chunk and the chunks across the
\* borders the column lies on, and no other chunk; a write of the block
\* already there changes no chunk.
DirtiedBySetBlock ==
  \A p \in RoundTripColumns, y \in 0 .. (kWorldHeight - 1), b \in RoundTripBlocks :
    LET tx == Shr(p[1], kChunkBits)
        tz == Shr(p[2], kChunkBits)
        after == WorldSetBlock(World, p[1], y, p[2], b)
    IN WorldGetChunk(World, tx, tz) # Null =>
         IF WorldGetBlock(World, p[1], y, p[2]) = b
         THEN after.chunks = chunks
         ELSE \A i \in Live :
                LET chunk == chunks.elements[i]
                IN after.chunks.elements[i].dirty
                     = \/ chunk.dirty
                       \/ chunk.cx = tx /\ chunk.cz = tz
                       \/ AcrossBorder(chunk.cx, chunk.cz, tx, tz,
                                       And(p[1], kChunkMask), And(p[2], kChunkMask))

\* A step in which the dirty flag of a chunk falls is a World.remesh call
\* that found the chunk dirty and ready.
CleanedByRemesh ==
  \A i \in Slots :
    (chunks'.elements[i] # Null /\ ~chunks'.elements[i].dirty) =>
      /\ chunks.elements[i] # Null
      /\ chunks.elements[i].cx = chunks'.elements[i].cx
      /\ chunks.elements[i].cz = chunks'.elements[i].cz
      /\ chunks.elements[i].dirty =>
           /\ ChunkNeedsRemesh(chunks.elements[i])
           /\ chunks' = WorldRemesh(World).chunks

RingFull == Cardinality(Live) = Len(chunks.points)

\* Is every ready chunk clean?
ReadyClean == \A i \in Live : chunks.elements[i].ready => ~chunks.elements[i].dirty

\* C12: with a loader installed, the viewer standing in one chunk and no
\* edits, repeated calls of World.recenter and World.remesh lead to a ring
\* with a chunk at every coordinate in range and no ready chunk dirty, and
\* it stays so.
C12_SkippedWorkRetried == <>[](RingFull /\ ReadyClean)

\* The ring is full and every ready chunk is clean, ready chunks past the
\* ninth of the ascending-distance order among them.
C12_Witness ==
  /\ RingFull
  /\ ReadyClean
  /\ \E i \in Live : chunks.elements[i].ready /\ Position(i) > 9
  /\ faults = {}

\* The lateral neighbor coordinates of a chunk that are out of range of the
\* center: the chunk is at the edge of the load radius iff there is one.
OutOfRange(chunk) ==
  {d \in Lateral :
     ~CircleInEnvelope(chunks, Abs(chunk.cx + d[1] - chunks.center_x),
                       Abs(chunk.cz + d[2] - chunks.center_z))}

\* C13, as stated: an absent neighbor counts, so once every coordinate in
\* range holds a chunk every chunk, those at the edge of the load radius
\* too, is ready.
C13_AbsentNeighborCounts ==
  RingFull => \A i \in Live : chunks.elements[i].ready

\* C13, amended: an absent neighbor does not count: a chunk is ready iff a
\* chunk is in the ring at each of its 4 lateral neighbor coordinates, and
\* a chunk at the edge of the load radius is never ready.
C13_AbsentNeighborDoesNotCount ==
  \A i \in Live :
    /\ chunks.elements[i].ready <=> Around(chunks.elements[i]) = Lateral
    /\ OutOfRange(chunks.elements[i]) # {} => ~chunks.elements[i].ready

\* A full ring: the chunks off the edge are ready, and a chunk at the edge,
\* with a chunk at every neighbor coordinate in range, is not.
C13_Witness ==
  /\ RingFull
  /\ \E i \in Live : chunks.elements[i].ready
  /\ \E i \in Live :
       /\ OutOfRange(chunks.elements[i]) # {}
       /\ Around(chunks.elements[i]) = Lateral \ OutOfRange(chunks.elements[i])
       /\ ~chunks.elements[i].ready

\* Is the step a World.remesh call, one that an assertion ended included?
RemeshStep ==
  /\ chunks' = WorldRemesh(World).chunks
  /\ frontier' = WorldRemesh(World).frontier
  /\ meshes' = WorldRemesh(World).meshes
  /\ faults' = WorldRemesh(World).faults

\* The frontier tiles present: level and slot.
Tiles ==
  UNION {{<<l, i>> : i \in {j \in DOMAIN frontier.levels[l].elements :
                               frontier.levels[l].elements[j] # Null}} :
           l \in 0 .. (kFrontierLevels - 1)}

\* Every tile present has, in its slot of its multi-mesh, the mask of its
\* children as they are now, is enabled, and is meshed if the mask is not
\* 15.
MasksTrack ==
  \A t \in Tiles :
    LET tile == frontier.levels[t[1]].elements[t[2]]
        mesh == frontier.meshes[tile.mesh]
        index == LODIndex(tile.cx, tile.cz)
    IN /\ mesh.mask[index] = FrontierMask(World, t[1], tile.cx, tile.cz)
       /\ mesh.enabled[index]
       /\ mesh.mask[index] # kLODSingleMask => mesh.meshed[index]

\* No tile that was not there has all 4 children meshed.
NoneCreatedHidden ==
  \A l \in 0 .. (kFrontierLevels - 1) :
    \A i \in DOMAIN frontier.levels[l].elements :
      LET old == frontier.levels[l].elements[i]
          new == frontier'.levels[l].elements[i]
      IN (new # Null /\ (old = Null \/ old.cx # new.cx \/ old.cz # new.cz)) =>
           frontier'.meshes[new.mesh].mask[LODIndex(new.cx, new.cz)] # kLODSingleMask

\* C14: after each World.remesh call every frontier tile present at level l
\* stores the mask whose bit i is set iff its child i (a chunk for l = 0, a
\* tile of level l - 1 otherwise) is present and has a mesh; a tile whose
\* mask is not 15 is shown; and no tile is created while its 4 children
\* are all meshed.
C14_MaskTracksChildren ==
  [][RemeshStep => (MasksTrack' /\ NoneCreatedHidden)]_vars

\* The same, for calls made with a frontier loader installed.
C14_MaskTracksChildrenWithLoader ==
  [][(loadFrontier # Null /\ RemeshStep) => (MasksTrack' /\ NoneCreatedHidden)]_vars

\* The slots of level l in which a step puts a new tile.
CreatedTiles(l) ==
  {i \in DOMAIN frontier.levels[l].elements :
     /\ frontier'.levels[l].elements[i] # Null
     /\ \/ frontier.levels[l].elements[i] = Null
        \/ frontier.levels[l].elements[i].cx # frontier'.levels[l].elements[i].cx
        \/ frontier.levels[l].elements[i].cz # frontier'.levels[l].elements[i].cz}

\* The sub-tiles, multi-mesh and slot, that a step meshes: createLODMeshes
\* has run on them.
MeshedTiles ==
  {m \in (DOMAIN frontier'.meshes) \X (0 .. (kMultiMeshArea - 1)) :
     /\ frontier'.meshes[m[1]].meshed[m[2]]
     /\ m[1] \in DOMAIN frontier.meshes => ~frontier.meshes[m[1]].meshed[m[2]]}

\* The mask of the children of the tile in slot i of level l.
ChildrenMask(l, i) ==
  FrontierMask(World, l, frontier.levels[l].elements[i].cx,
               frontier.levels[l].elements[i].cz)

\* Frontier.remeshFrontier, called in this state, leaves every tile present
\* where it is, with the mask of its children.
TilesRefreshed ==
  LET after == FrontierRemeshFrontier(World)
  IN \A t \in Tiles :
       LET old == frontier.levels[t[1]].elements[t[2]]
           new == after.frontier.levels[t[1]].elements[t[2]]
       IN /\ new = old
          /\ after.frontier.meshes[new.mesh].mask[LODIndex(new.cx, new.cz)]
               = FrontierMask(after, t[1], new.cx, new.cz)

StillMeshed(l, i) ==
  LET tile == frontier'.levels[l].elements[i]
  IN /\ tile.mesh \in DOMAIN frontier.meshes
     /\ frontier.meshes[tile.mesh].meshed[LODIndex(tile.cx, tile.cz)]

LODHandles(mesh) == {mesh.solid, mesh.water} \ {Null}

\* LODMultiMesh.disable(index), called in this state on any multi-mesh at
\* any index: nothing changes for a sub-tile that is not enabled; with
\* another sub-tile enabled only the nibble and the enabled flag of this
\* one change; else the handles are disposed and the multi-mesh is as new.
DisableCases ==
  \A key \in DOMAIN frontier.meshes, index \in 0 .. (kMultiMeshArea - 1) :
    LET mesh == frontier.meshes[key]
        after == LODDisable(World, key, index)
    IN IF ~mesh.enabled[index] THEN after = World
       ELSE IF \E j \in DOMAIN mesh.enabled : j # index /\ mesh.enabled[j]
       THEN after = [World EXCEPT
                       !.frontier.meshes[key] =
                          [mesh EXCEPT !.mask[index] = kLODSingleMask,
                                       !.enabled[index] = FALSE]]
       ELSE /\ after.frontier.meshes[key] = LODMultiMeshNew
            /\ after.meshes = meshes \ LODHandles(mesh)
            /\ after.faults = faults
            /\ after.chunks = chunks
            /\ after.frontier.levels = frontier.levels

\* A step that disposes a handle of a multi-mesh leaves that multi-mesh
\* with no sub-tile enabled, none meshed, no handle and all nibbles 15.
DisposedWhenNoneEnabled ==
  \A key \in DOMAIN frontier.meshes :
    (LODHandles(frontier.meshes[key]) \ meshes' # {}) =>
      frontier'.meshes[key] = LODMultiMeshNew

\* C16: a LODMultiMesh disposes its handles only in a disable call that
\* leaves no sub-tile enabled, and then also clears every meshed flag, nulls
\* both handles and resets the mask to all ones; a disable that leaves
\* another sub-tile enabled disposes nothing and sets only that sub-tile's
\* nibble to 15; a disable of a sub-tile that is not enabled changes
\* nothing.
C16_DisposeWhenNoneEnabled ==
  /\ []DisableCases
  /\ [][DisposedWhenNoneEnabled]_vars

\* A multi-mesh with several sub-tiles enabled and a handle, beside one that
\* a recenter has released.
C16_Witness ==
  /\ faults = {}
  /\ \E key \in DOMAIN frontier.meshes :
       /\ Cardinality({j \in DOMAIN frontier.meshes[key].enabled :
                         frontier.meshes[key].enabled[j]}) > 1
       /\ LODHandles(frontier.meshes[key]) # {}
  /\ \E key \in DOMAIN frontier.meshes : frontier.meshes[key] = LODMultiMeshNew

\* The coordinates get is tried at: around the center, one past the disc on
\* every side.
Queries ==
  {<<chunks.center_x + dx, chunks.center_z + dz>> :
     dx \in (-(chunks.floor + 1)) .. (chunks.floor + 1),
     dz \in (-(chunks.floor + 1)) .. (chunks.floor + 1)}

\* The multiples of the ring's side by which aliasing coordinates differ.
Aliases == {<<k * chunks.side, m * chunks.side>> : k, m \in -1 .. 1} \ {<<0, 0>>}

\* C17: Circle.get(cx, cz) returns the element in the slot of (cx, cz) iff
\* that element's own coordinate is (cx, cz); it returns null for an empty
\* slot and for a coordinate that differs from that of the slot's element
\* by a multiple of the ring's side, which addresses the same slot.
C17_GetMatchesCoordinate ==
  /\ \A i \in Live :
       LET e == chunks.elements[i]
       IN /\ CircleGet(chunks, e.cx, e.cz) = e
          /\ \A a \in Aliases :
               /\ CircleIndex(chunks, e.cx + a[1], e.cz + a[2]) = i
               /\ CircleGet(chunks, e.cx + a[1], e.cz + a[2]) = Null
  /\ \A q \in Queries :
       IF \E i \in Live : chunks.elements[i].cx = q[1] /\ chunks.elements[i].cz = q[2]
       THEN CircleGet(chunks, q[1], q[2]) # Null
       ELSE CircleGet(chunks, q[1], q[2]) = Null

\* The chunk (1, 0) is in the ring: get finds it, finds nothing at the
\* aliasing coordinate a ring side away whose slot it occupies, and nothing
\* at (3, 0), whose slot is empty.
C17_Witness ==
  /\ CircleGet(chunks, 1, 0) # Null
  /\ chunks.elements[CircleIndex(chunks, 1 + chunks.side, 0)] # Null
  /\ CircleGet(chunks, 1 + chunks.side, 0) = Null
  /\ chunks.elements[CircleIndex(chunks, 3, 0)] = Null
  /\ CircleGet(chunks, 3, 0) = Null

\* Circle.set applied to the chunk ring of the current state at coordinate q
\* with a new chunk of that coordinate.
SetAt(q) == ChunksSet(World, q[1], q[2], ChunkNew(q[1], q[2]))

\* The slot of q is taken by one of the elements es, whose coordinate is q
\* or differs from q by a multiple of the side.
Taken(es, q) ==
  \E e \in es : /\ (e.cx - q[1]) % chunks.side = 0
                /\ (e.cz - q[2]) % chunks.side = 0

\* C18: Circle.set(cx, cz, value) fails with an assertion and leaves the
\* occupant in its slot whenever the slot of (cx, cz) holds an element, be
\* it of that coordinate or of an aliasing one; otherwise it stores value
\* in that slot.
C18_SetFailsOnOccupiedSlot ==
  LET es == {chunks.elements[i] : i \in Live}
  IN \A q \in Queries \cup {<<e.cx + a[1], e.cz + a[2]>> : e \in es, a \in Aliases} :
       LET after == SetAt(q)
           slot == CircleIndex(chunks, q[1], q[2])
       IN IF Taken(es, q)
          THEN /\ "assert in Circle.set" \in after.faults
               /\ after.chunks.elements[slot] = chunks.elements[slot]
          ELSE /\ after.faults = faults
               /\ after.chunks.elements[slot] = ChunkNew(q[1], q[2])

\* The chunk (1, 0) is in the ring: a set at (1, 0) and a set at the
\* aliasing coordinate a side away both fail and leave it in place, and a
\* set at (3, 0), whose slot is empty, stores the new chunk.
C18_Witness ==
  /\ faults = {}
  /\ CircleGet(chunks, 1, 0) # Null
  /\ SetAt(<<1, 0>>).faults # {}
  /\ SetAt(<<1 + chunks.side, 0>>).faults # {}
  /\ CircleGet(SetAt(<<1 + chunks.side, 0>>).chunks, 1, 0) = CircleGet(chunks, 1, 0)
  /\ SetAt(<<3, 0>>).faults = {}
  /\ CircleGet(SetAt(<<3, 0>>).chunks, 3, 0) = ChunkNew(3, 0)

\* Circle.center called on the chunk ring of w with an empty call log.
CenterAgain(w, t) == ChunksCenter([w EXCEPT !.disposed = <<>>], t[1], t[2])

\* The second call changed nothing and disposed nothing.
SameRing(first, second) ==
  /\ second.disposed = <<>>
  /\ second.chunks = first.chunks
  /\ second.meshes = first.meshes
  /\ second.faults = first.faults

\* C19: Circle.center is idempotent: a second center(cx, cz) with the same
\* coordinate disposes no element and changes no slot, both right after the
\* first call and, in the running world, when the ring is centered again on
\* the coordinate it was last centered on.
C19_CenterIdempotent ==
  /\ \A t \in Centers :
       LET once == ChunksCenter(World, t[1], t[2])
       IN SameRing(once, CenterAgain(once, t))
  /\ SameRing(World, CenterAgain(World, <<chunks.center_x, chunks.center_z>>))

\* A full ring from which a first center evicts some chunks and keeps
\* others, and a second one evicts none.
C19_Witness ==
  /\ Cardinality(Live) = Len(chunks.points)
  /\ \E t \in Centers :
       LET once == ChunksCenter(World, t[1], t[2])
       IN /\ Len(once.disposed) > 0
          /\ Len(once.disposed) < Cardinality(Live)
          /\ CenterAgain(once, t).disposed = <<>>
          /\ CenterAgain(once, t).chunks.elements = once.chunks.elements

\* The squared distance of the coordinate at from the center of ring c.
Distance2(c, at) ==
  (at[1] - c.center_x) * (at[1] - c.center_x) + (at[2] - c.center_z) * (at[2] - c.center_z)

\* The visits of each on ring c are in non-decreasing squared distance from
\* its center and no coordinate is visited twice.
EachOrdered(c) ==
  LET visits == CircleEach(c, c.center_x, c.center_z)
  IN /\ \A n \in 1 .. (Len(visits) - 1) :
          Distance2(c, visits[n]) <= Distance2(c, visits[n + 1])
     /\ Cardinality({visits[n] : n \in DOMAIN visits}) = Len(visits)

\* The visitor of World.recenter returns true at the first chunk it
\* constructs: no later visit of that each constructs a chunk.
StopsAtFirstTrue ==
  LET visits == CircleEach(chunks', chunks'.center_x, chunks'.center_z)
      made == Constructed
      calls == {n \in DOMAIN visits :
                  CircleIndex(chunks, visits[n][1], visits[n][2]) \in made}
  IN \A n, m \in calls : ~(n < m)

\* C20: Circle.each, on the chunk ring and on every level of the frontier,
\* calls the visitor with the coordinates center + offset in non-decreasing
\* squared distance from the current center, with no coordinate twice, and
\* makes no visitor call after the first one that returns true.
C20_EachAscendingStopsOnTrue ==
  /\ [](/\ EachOrdered(chunks)
        /\ \A l \in DOMAIN frontier.levels : EachOrdered(frontier.levels[l]))
  /\ [][StopsAtFirstTrue]_vars

\* After a move by one chunk: each starts at the new center and ends at
\* distance 5; the nearest missing chunk, at distance 4, was made by the
\* visit that returned true, and the missing chunks at distance 5 were not
\* visited.
C20_Witness ==
  LET visits == CircleEach(chunks, chunks.center_x, chunks.center_z)
  IN /\ moves = 1
     /\ visits[1] = <<1, 0>>
     /\ Distance2(chunks, visits[Len(visits)]) = 5
     /\ CircleGet(chunks, 3, 0) # Null
     /\ Cardinality({n \in DOMAIN visits :
                       CircleGet(chunks, visits[n][1], visits[n][2]) = Null}) = 4

\* The integer pairs within `span` of the origin that lie in the disc of
\* radius num / den.
Disc(num, den, span) ==
  {p \in ((-span) .. span) \X ((-span) .. span) :
     (p[1] * p[1] + p[2] * p[2]) * den * den <= num * num}

\* The offsets each visits on ring c, and the offsets within `span` that the
\* envelope test of center accepts.
Offsets(c) == {c.points[n] : n \in DOMAIN c.points}
Envelope(c, span) ==
  {p \in ((-span) .. span) \X ((-span) .. span) : CircleInEnvelope(c, Abs(p[1]), Abs(p[2]))}

\* The offsets of ring c, made with radius num / den, are the disc of that
\* radius, and so is its envelope.
DiscExact(c, num, den) ==
  /\ Offsets(c) = Disc(num, den, c.floor + 2)
  /\ Envelope(c, c.floor + 2) = Disc(num, den, c.floor + 2)

\* C21: the in-range offsets of a Circle of radius r are exactly the integer
\* pairs (i, j) with i*i + j*j <= r*r, and the envelope test of center
\* accepts exactly that set; for the chunk ring of radius 2.5 and for every
\* frontier level, wherever the ring is centered.  With radius 2.5, (0, 0)
\* and (2, 0) are in range and (3, 0) is not.
C21_OffsetsAreTheDisc ==
  /\ DiscExact(chunks, 2 * kChunkRadius + 1, 2)
  /\ \A l \in DOMAIN frontier.levels :
       DiscExact(frontier.levels[l], FrontierRadius(kChunkRadius, l)[1],
                 FrontierRadius(kChunkRadius, l)[2])
  /\ kChunkRadius = 2 =>
       /\ {<<0, 0>>, <<2, 0>>} \subseteq Offsets(chunks)
       /\ <<3, 0>> \notin Offsets(chunks)
       /\ <<3, 0>> \notin Envelope(chunks, 3)

\* The ring of radius 2.5, moved to chunk (1, 0) and filled: the chunks at
\* offsets (0, 0) and (2, 0) are in it, the one at offset (-3, 0), in range
\* before the move, is not, and neither is the one at offset (3, 0).
C21_Witness ==
  /\ chunks.center_x = 1 /\ chunks.center_z = 0
  /\ Cardinality(Live) = Len(chunks.points)
  /\ CircleGet(chunks, 1, 0) # Null
  /\ CircleGet(chunks, 3, 0) # Null
  /\ CircleGet(chunks, -2, 0) = Null
  /\ CircleGet(chunks, 4, 0) = Null

\* The push calls tried: heights below, inside and above the world.
MaxPushes == 3
Pushes ==
  {<<"push", kStone, h>> : h \in -1 .. (kWorldHeight + 1)} \cup {<<"push", kWater, 1>>}
PushSequences ==
  UNION {[1 .. n -> Pushes] : n \in 0 .. MaxPushes}

\* The column after clear and the first k calls of ops.
AfterPushes(ops, k) == ColumnApply(ColumnClear(column), SubSeq(ops, 1, k), 1)

\* The top levels of the runs of col, in order.
TopLevels(col) == [n \in 1 .. ColumnGetSize(col) |-> ColumnGetNthLevel(col, n - 1)]

\* C22: after clear and any sequence of Column.push calls the top levels of
\* the stored runs are strictly increasing, positive and at most
\* kWorldHeight, and there are at most kWorldHeight runs; a push whose
\* height, cut to kWorldHeight, does not exceed the current top changes
\* nothing - every push once the top is kWorldHeight - and any other push
\* appends one run of that block up to that height.
C22_PushKeepsRunsIncreasing ==
  \A ops \in PushSequences :
    /\ LET tops == TopLevels(AfterPushes(ops, Len(ops)))
       IN /\ \A n \in DOMAIN tops : 0 < tops[n] /\ tops[n] <= kWorldHeight
          /\ \A n \in DOMAIN tops : n > 1 => tops[n - 1] < tops[n]
          /\ Len(tops) <= kWorldHeight
    /\ \A k \in 1 .. Len(ops) :
         LET before == AfterPushes(ops, k - 1)
             after == AfterPushes(ops, k)
             top == IF ColumnGetSize(before) = 0 THEN 0
                    ELSE ColumnGetNthLevel(before, ColumnGetSize(before) - 1)
         IN IF ops[k][3] <= top \/ top = kWorldHeight
            THEN after = before
            ELSE /\ ColumnGetSize(after) = ColumnGetSize(before) + 1
                 /\ ColumnGetNthBlock(after, ColumnGetSize(before), kEmptyBlock) = ops[k][2]
                 /\ ColumnGetNthLevel(after, ColumnGetSize(before)) = Min(ops[k][3], kWorldHeight)
                 /\ TopLevels(before) = SubSeq(TopLevels(after), 1, ColumnGetSize(before))

\* A column that still holds the runs of the last fill: after clear, a push
\* to 1, a push above the world and a push to the world's height leave two
\* runs, the second cut to kWorldHeight, the third push ignored.
C22_Witness ==
  /\ Live # {}
  /\ column.data[1] > 0
  /\ LET ops == << <<"push", kStone, 1>>, <<"push", kWater, kWorldHeight + 1>>,
                   <<"push", kStone, kWorldHeight>> >>
     IN /\ TopLevels(AfterPushes(ops, 3)) = <<1, kWorldHeight>>
        /\ AfterPushes(ops, 3) = AfterPushes(ops, 2)

\* The block the calls ops of a loader leave at height y of their column:
\* that of the last overwrite at y, else that of the first push above y,
\* else nothing.
Expected(ops, y) ==
  LET decorated == {i \in DOMAIN ops : ops[i][1] = "overwrite" /\ ops[i][3] = y}
      covering == {i \in DOMAIN ops : ops[i][1] = "push" /\ ops[i][3] > y}
  IN IF decorated # {} THEN ops[SetMax(decorated)][2]
     ELSE IF covering # {} THEN ops[CHOOSE i \in covering : \A j \in covering : i <= j][2]
     ELSE kEmptyBlock

\* The calls tried on one column of a new chunk: a run, and decorations
\* below, inside and above the world, two of them at the same height, in
\* any order.
Decorations ==
  {<<"push", kStone, kWorldHeight>>,
   <<"overwrite", kWater, -1>>, <<"overwrite", kWater, 0>>,
   <<"overwrite", kEmptyBlock, 0>>, <<"overwrite", kWater, kWorldHeight - 1>>,
   <<"overwrite", kWater, kWorldHeight>>}
DecorationPrograms == UNION {[1 .. n -> Decorations] : n \in 0 .. MaxPushes}

\* The new chunk (0, 0) after the column buffer of the current state, cleared,
\* takes the calls ops and fills the column (1, 0).
FilledBy(ops) ==
  ColumnFillChunk(ColumnApply(ColumnClear(column), ops, 1), 1, 0, ChunkNew(0, 0), FALSE).filled

\* C23: Column.overwrite ignores a y outside [0, kWorldHeight), and
\* Column.fillChunk applies the runs first and the decorations after them:
\* in a new chunk the voxel at a decorated height holds the block of the
\* last decoration recorded for it, whenever it was recorded, and every
\* other height holds its run's block, or nothing above the last run; no
\* voxel of another column is written.  Both for the chunks the loaders
\* have made and for a column filled from DecorationPrograms.
C23_DecorationsOverrideRuns ==
  /\ \A i \in Live : \A xm, zm \in 0 .. (kChunkWidth - 1) : \A y \in 0 .. (kWorldHeight - 1) :
       chunks.elements[i].voxels[TensorIndex(xm, y, zm)]
         = Expected(loadChunk.columns[1 + xm * kChunkWidth + zm], y)
  /\ \A ops \in DecorationPrograms :
       LET filled == FilledBy(ops)
       IN \A xm, zm \in 0 .. (kChunkWidth - 1) : \A y \in 0 .. (kWorldHeight - 1) :
            filled.voxels[TensorIndex(xm, y, zm)]
              = IF xm = 1 /\ zm = 0 THEN Expected(ops, y) ELSE kEmptyBlock

\* A chunk loaded with a decoration above the run of its first column, and
\* a column buffer that leaves, of a water and an empty decoration at
\* height 0 recorded before a stone run, the empty one.
C23_Witness ==
  /\ \E i \in Live :
       /\ loadChunk.columns[1] = << <<"push", kStone, 1>>, <<"overwrite", kStone, 1>> >>
       /\ chunks.elements[i].voxels[TensorIndex(0, 1, 0)] = kStone
  /\ FilledBy(<< <<"overwrite", kWater, 0>>, <<"overwrite", kEmptyBlock, 0>>,
                 <<"push", kStone, kWorldHeight>> >>).voxels[TensorIndex(1, 0, 0)] = kEmptyBlock
  /\ FilledBy(<< <<"overwrite", kWater, kWorldHeight>>,
                 <<"push", kStone, kWorldHeight>> >>).voxels[TensorIndex(1, kWorldHeight - 1, 0)] = kStone

\* The loader makes the same block at every height of every column: one run
\* of block up to the world's height and no decoration, or, for the empty
\* block, no call at all.
ConstantLoader(block) ==
  \A k \in DOMAIN loadChunk.columns :
    \/ loadChunk.columns[k] = << <<"push", block, kWorldHeight>> >>
    \/ block = kEmptyBlock /\ loadChunk.columns[k] = <<>>

\* C24: a chunk loaded with a terrain callback that makes one constant block
\* at every height of every column holds that block in every voxel and has
\* an equi-level bitmap that is all true.
C24_ConstantTerrainAllEquilevels ==
  \A block \in {kEmptyBlock, kStone} :
    ConstantLoader(block) =>
      \A i \in Live :
        /\ \A y \in 0 .. (kWorldHeight - 1) : chunks.elements[i].equilevels[y] = 1
        /\ \A v \in DOMAIN chunks.elements[i].voxels : chunks.elements[i].voxels[v] = block

\* Two chunks loaded one after the other by the loader that makes stone
\* everywhere, the second compared with the reference column of the first.
C24_Witness ==
  /\ ConstantLoader(kStone)
  /\ Cardinality(Live) = ColumnChunks
  /\ column.reference_size = 1
  /\ \A i \in Live : \A y \in 0 .. (kWorldHeight - 1) : chunks.elements[i].equilevels[y] = 1

\* The chunk coordinates Frontier.center is tried at, on both sides of 0.
FrontierCenters == (-4 .. 4) \X {-3, 0, 2}

\* Level l of the frontier of w is centered on the tile that holds chunk
\* coordinate t: center * 2^(l+1) <= t < (center + 1) * 2^(l+1).
CenteredOnTileOf(w, l, t) ==
  LET ring == w.frontier.levels[l]
      scale == Pow2(l + 1)
  IN /\ ring.center_x * scale <= t[1] /\ t[1] < (ring.center_x + 1) * scale
     /\ ring.center_z * scale <= t[2] /\ t[2] < (ring.center_z + 1) * scale

\* Level l of w holds the tiles of the current level l that are within the
\* envelope of its center, and no other.
OutOfRangeTilesEvicted(w, l) ==
  LET ring == w.frontier.levels[l]
  IN \A i \in DOMAIN ring.elements :
       LET old == frontier.levels[l].elements[i]
       IN IF old # Null /\ CircleInEnvelope(ring, Abs(old.cx - ring.center_x),
                                            Abs(old.cz - ring.center_z))
          THEN ring.elements[i] = old
          ELSE ring.elements[i] = Null

FarColumns ==
  RoundTripColumns \cup {<<p[1] + chunks.side * kChunkWidth, p[2]>> : p \in RoundTripColumns}

\* None of the chunks es contains the column p.
NoChunkAt(es, p) ==
  \A e \in es :
    ~(/\ e.cx * kChunkWidth <= p[1] /\ p[1] < (e.cx + 1) * kChunkWidth
      /\ e.cz * kChunkWidth <= p[2] /\ p[2] < (e.cz + 1) * kChunkWidth)

\* C26: World.getBlock returns the empty block for y >= kWorldHeight, and
\* the unknown block for 0 <= y < kWorldHeight when no chunk of the ring
\* contains the column; World.setBlock with y outside [0, kWorldHeight) or
\* with no chunk containing the column changes nothing in the world.
C26_AbsentReadsUnknownWritesNothing ==
  LET w == World
      es == {chunks.elements[i] : i \in Live}
  IN \A p \in FarColumns :
       LET absent == NoChunkAt(es, p)
       IN /\ \A y \in kWorldHeight .. (kWorldHeight + 1) :
               WorldGetBlock(w, p[1], y, p[2]) = kEmptyBlock
          /\ absent =>
               \A y \in 0 .. (kWorldHeight - 1) :
                 WorldGetBlock(w, p[1], y, p[2]) = kUnknownBlock
          /\ \A y \in -1 .. (kWorldHeight + 1), b \in RoundTripBlocks :
               (absent \/ y < 0 \/ y >= kWorldHeight)
                 => WorldSetBlock(w, p[1], y, p[2], b) = w

\* The chunk (0, 0) is loaded and holds stone at the bottom of column
\* (0, 0); the column a ring side away, whose chunk would take the same
\* slot, reads unknown and a write there changes nothing; a write above the
\* world on the loaded column changes nothing either.
C26_Witness ==
  /\ WorldGetBlock(World, 0, 0, 0) = kStone
  /\ NoChunkAt({chunks.elements[i] : i \in Live}, <<chunks.side * kChunkWidth, 0>>)
  /\ WorldGetBlock(World, chunks.side * kChunkWidth, 0, 0) = kUnknownBlock
  /\ WorldSetBlock(World, chunks.side * kChunkWidth, 0, 0, kWater) = World
  /\ WorldSetBlock(World, 0, kWorldHeight, 0, kWater) = World
  /\ WorldGetBlock(World, 0, kWorldHeight, 0) = kEmptyBlock

\* Does ring c hold a chunk at each of the 4 lateral neighbor coordinates
\* of chunk?
Surrounded(c, chunk) ==
  \A d \in Lateral : CircleGet(c, chunk.cx + d[1], chunk.cz + d[2]) # Null

\* A chunk of the ring that lacks a lateral neighbor is not ready and holds
\* no mesh.
UnsurroundedNotReady ==
  \A i \in Live :
    ~Surrounded(chunks, chunks.elements[i]) =>
      /\ ~chunks.elements[i].ready
      /\ chunks.elements[i].solid = Null
      /\ chunks.elements[i].water = Null

\* C27: whenever remeshChunk runs from World.remesh, the 4 lateral neighbors
\* of the chunk are in the ring; a chunk that lost a neighbor to a center
\* call is not ready and has dropped its meshes when the call returns, so
\* no chunk is meshed, or stays meshed, with a border taken from a disposed
\* or absent neighbor.
C27_MeshedOnlyWithNeighbors ==
  /\ []UnsurroundedNotReady
  /\ [][\A i \in Remeshed : /\ Surrounded(chunks, chunks.elements[i])
                            /\ Surrounded(chunks', chunks'.elements[i])]_vars

\* After a move to chunk (1, 0): chunk (-1, 0) is still in the ring, its
\* neighbor (-2, 0) was disposed, and it is not ready and without mesh,
\* while chunk (1, 0), with all 4 neighbors, is ready and meshed.
C27_Witness ==
  /\ moves = 1
  /\ chunks.center_x = 1 /\ chunks.center_z = 0
  /\ CircleGet(chunks, -1, 0) # Null
  /\ CircleGet(chunks, -2, 0) = Null
  /\ ~CircleGet(chunks, -1, 0).ready
  /\ CircleGet(chunks, 1, 0) # Null
  /\ CircleGet(chunks, 1, 0).ready
  /\ CircleGet(chunks, 1, 0).solid # Null

\* 1 + the highest y of the column (xm, zm) of chunk whose voxel is not the
\* empty block, or 0.
HeightOf(chunk, xm, zm) ==
  LET solid == {y \in 0 .. (kWorldHeight - 1) :
                  chunk.voxels[TensorIndex(xm, y, zm)] # kEmptyBlock}
  IN IF solid = {} THEN 0 ELSE SetMax(solid) + 1

\* The cached height of every column of chunk is HeightOf.
HeightsExact(chunk) ==
  \A xm, zm \in 0 .. (kChunkWidth - 1) :
    chunk.heightmap[Tensor2Index(xm, zm)] = HeightOf(chunk, xm, zm)

\* The columns edited twice in a row, and the loads tried on a new chunk:
\* runs with an empty decoration on top, at the bottom and in a hole, empty
\* runs below and above a stone run, and a decoration alone.
HeightColumns == {<<-1, 0>>, <<0, 0>>, <<kChunkWidth + 1, 1>>}
HeightPrograms ==
  {<< <<"push", kStone, kWorldHeight>>, <<"overwrite", kEmptyBlock, kWorldHeight - 1>> >>,
   << <<"push", kStone, 1>>, <<"overwrite", kEmptyBlock, 0>> >>,
   << <<"push", kStone, kWorldHeight>>, <<"overwrite", kEmptyBlock, 0>> >>,
   << <<"push", kEmptyBlock, 1>>, <<"push", kStone, kWorldHeight>> >>,
   << <<"push", kStone, 1>>, <<"push", kEmptyBlock, kWorldHeight>> >>,
   << <<"overwrite", kWater, kWorldHeight - 1>> >>}

\* C28: the cached height of every column of every chunk is 1 + the highest
\* y whose voxel is not empty, or 0 for an empty column: in every chunk of
\* every reachable state (after Chunk.load and the edits made), after any
\* two further World.setBlock calls on a column, removals of the top block
\* included, and after a load with empty decorations and runs.
C28_HeightmapExact ==
  /\ \A i \in Live : HeightsExact(chunks.elements[i])
  /\ LET w == World
     IN \A p \in HeightColumns :
          LET at == CircleIndex(chunks, Shr(p[1], kChunkBits), Shr(p[2], kChunkBits))
          IN chunks.elements[at] # Null =>
               \A y1 \in 0 .. (kWorldHeight - 1), b1 \in RoundTripBlocks :
                 LET once == WorldSetBlock(w, p[1], y1, p[2], b1)
                 IN /\ HeightsExact(once.chunks.elements[at])
                    /\ \A y2 \in 0 .. (kWorldHeight - 1), b2 \in RoundTripBlocks :
                         HeightsExact(
                           WorldSetBlock(once, p[1], y2, p[2], b2).chunks.elements[at])
  /\ \A ops \in HeightPrograms : HeightsExact(FilledBy(ops))

\* The empty column (-1, 0) of the loaded chunk (-1, 0): a stone put at the
\* top makes the height kWorldHeight and taking it away makes it 0 again;
\* on a column of chunk (1, 0) with stone at the bottom only, of height 1,
\* the same leaves the height 1.
C28_Witness ==
  LET x == kChunkWidth + 1
      top == kWorldHeight - 1
  IN /\ faults = {}
     /\ WorldGetChunk(World, -1, 0) # Null
     /\ WorldGetHeight(World, -1, 0) = 0
     /\ WorldGetHeight(WorldSetBlock(World, -1, top, 0, kStone), -1, 0) = kWorldHeight
     /\ WorldGetHeight(WorldSetBlock(WorldSetBlock(World, -1, top, 0, kStone),
                                     -1, top, 0, kEmptyBlock), -1, 0) = 0
     /\ WorldGetChunk(World, 1, 0) # Null
     /\ WorldGetHeight(World, x, 1) = 1
     /\ WorldGetHeight(WorldSetBlock(World, x, top, 1, kStone), x, 1) = kWorldHeight
     /\ WorldGetHeight(WorldSetBlock(WorldSetBlock(World, x, top, 1, kStone),
                                     x, top, 1, kEmptyBlock), x, 1) = 1

\* The columns of the padded buffer the mesher reads: all but the four
\* corner columns, which remeshTerrain never writes.
PaddedColumns ==
  {c \in (0 .. (kChunkWidth + 1)) \X (0 .. (kChunkWidth + 1)) :
     \/ (c[1] # 0 /\ c[1] # kChunkWidth + 1)
     \/ (c[2] # 0 /\ c[2] # kChunkWidth + 1)}

\* A merged flag of 1 means the layer of the padded buffer holds one block.
MergedSound(w, chunk) ==
  LET merged == ChunkRemeshEquilevels(w, chunk)
  IN \A y \in 0 .. (kWorldHeight + 1) :
       merged[y] = 1 =>
         \A c \in PaddedColumns :
           ChunkPaddedBlock(w, chunk, c[1], y, c[2]) = ChunkPaddedBlock(w, chunk, 1, y, 1)

\* The flags of a chunk before any neighbour is merged in.
OwnFlags(chunk) ==
  [y \in 0 .. (kWorldHeight + 1) |->
     IF y = 0 \/ y = kWorldHeight + 1 THEN 1 ELSE chunk.equilevels[y - 1]]

\* copyEquilevels with `chunk` as the neighbour of region o leaves a flag at
\* 1 only if the border strip of `chunk` holds the block of `this` there.
StripSound(this, chunk, o) ==
  LET merged == ChunkCopyEquilevels(OwnFlags(this), this, chunk, o)
  IN \A y \in 1 .. kWorldHeight :
       merged[y] = 1 =>
         \A a \in 0 .. (o.size[1] - 1), b \in 0 .. (o.size[2] - 1) :
           chunk.voxels[TensorIndex(o.src[1] + a, y - 1, o.src[2] + b)]
             = this.voxels[TensorIndex(0, y - 1, 0)]

\* Every chunk's own flags and the flags merged for its remesh are sound,
\* and so is the merge of any chunk with any other as its neighbour on any
\* of the four sides.
FlagsSound(w) ==
  LET es == {w.chunks.elements[i] : i \in DOMAIN w.chunks.elements} \ {Null}
  IN \A chunk \in es :
       /\ \A y \in 0 .. (kWorldHeight - 1) : chunk.equilevels[y] = 1 => Uniform(chunk, y)
       /\ MergedSound(w, chunk)
       /\ \A other \in es \ {chunk}, n \in 2 .. Len(kNeighborOffsets) :
            StripSound(chunk, other, kNeighborOffsets[n])

\* The blocks setBlock writes: in the two chunks next to the origin's border,
\* on the border strip and away from it, at every height.
EquilevelEdits ==
  {<<-1, 0>>, <<-1, 1>>, <<-2, 0>>, <<-2, 1>>, <<0, 0>>} \X (0 .. (kWorldHeight - 1))
    \X {kEmptyBlock, kStone}

EquilevelSecondEdits ==
  {<<<<-1, 1>>, kWorldHeight - 1, kEmptyBlock>>, <<<<-2, 0>>, 0, kStone>>,
   <<<<0, 0>>, kWorldHeight - 1, kStone>>}

\* C29: the equi-level flags are sound: after load and after any setBlock
\* sequence a chunk's equilevels[y] = 1 implies that all voxels of its layer
\* y are equal, and the flag remeshTerrain merges for a layer of the padded
\* buffer is 1 only if every cell of that layer outside the four corner
\* columns holds the same block.
C29_EquilevelsSound ==
  faults = {} =>
    LET w == World
    IN /\ FlagsSound(w)
       /\ \A e \in EquilevelEdits :
            LET once == WorldSetBlock(w, e[1][1], e[2], e[1][2], e[3])
            IN /\ FlagsSound(once)
               /\ \A f \in EquilevelSecondEdits :
                    FlagsSound(WorldSetBlock(once, f[1][1], f[2], f[1][2], f[3]))

\* Chunks (0, 0) and (-1, 0) loaded with stone at the bottom of every column:
\* the merged flag of the empty top layer of chunk (0, 0) is 1 and that of
\* its stone layer, next to absent chunks, is 0; a stone on the border strip
\* of chunk (-1, 0) clears the merged flag, and a stone away from the strip
\* clears only that chunk's own flag; with chunk (-1, 0) as the neighbour
\* across z, the strip is its row z = 0.
C29_Witness ==
  LET w == World
      top == kWorldHeight - 1
      strip == WorldSetBlock(w, -1, top, 1, kStone)
      away == WorldSetBlock(w, -2, top, 0, kStone)
      back == WorldSetBlock(w, -2, top, 1, kStone)
      across == kNeighborOffsets[5]
  IN /\ faults = {}
     /\ \A k \in DOMAIN loadChunk.columns : loadChunk.columns[k] = << <<"push", kStone, 1>> >>
     /\ WorldGetChunk(w, 0, 0) # Null
     /\ WorldGetChunk(w, -1, 0) # Null
     /\ ChunkRemeshEquilevels(w, WorldGetChunk(w, 0, 0))[top + 1] = 1
     /\ WorldGetChunk(w, 0, 0).equilevels[0] = 1
     /\ ChunkRemeshEquilevels(w, WorldGetChunk(w, 0, 0))[1] = 0
     /\ WorldGetChunk(strip, 0, 0).equilevels[top] = 1
     /\ ChunkRemeshEquilevels(strip, WorldGetChunk(strip, 0, 0))[top + 1] = 0
     /\ WorldGetChunk(away, -1, 0).equilevels[top] = 0
     /\ ChunkRemeshEquilevels(away, WorldGetChunk(away, 0, 0))[top + 1] = 1
     /\ ChunkCopyEquilevels(OwnFlags(WorldGetChunk(w, 0, 0)), WorldGetChunk(w, 0, 0),
                            WorldGetChunk(away, -1, 0), across)[top + 1] = 0
     /\ ChunkCopyEquilevels(OwnFlags(WorldGetChunk(w, 0, 0)), WorldGetChunk(w, 0, 0),
                            WorldGetChunk(back, -1, 0), across)[top + 1] = 1

\* The two assertions on the neighbors counter.
NeighborAsserts ==
  {"assert in notifyNeighborDisposed", "assert in notifyNeighborLoaded"}

\* Every chunk of the ring of w counts the lateral neighbor coordinates that
\* hold a chunk.
NeighborsCounted(w) ==
  \A i \in DOMAIN w.chunks.elements :
    w.chunks.elements[i] # Null =>
      w.chunks.elements[i].neighbors
        = Cardinality({d \in Lateral :
                         WorldGetChunk(w, w.chunks.elements[i].cx + d[1],
                                       w.chunks.elements[i].cz + d[2]) # Null})

\* The centers Circle.center is called with: the viewpoints' chunks, one
\* step across a diagonal and two steps along z.
EvictionCenters == Centers \cup {<<-1, -1>>, <<0, 2>>}

\* Circle.center on World.chunks, called in this state with any of the
\* centers: no assertion on a counter fails, no chunk is disposed twice, the
\* disposed chunks are out of the ring and the counters of the chunks left
\* match the ring.
CenterKeepsCounters(w) ==
  \A t \in EvictionCenters :
    LET after == ChunksCenter(w, t[1], t[2])
    IN /\ after.faults \cap NeighborAsserts = {}
       /\ NeighborsCounted(after)
       /\ \A k, m \in DOMAIN after.disposed :
            after.disposed[k] = after.disposed[m] => k = m
       /\ \A k \in DOMAIN after.disposed :
            WorldGetChunk(after, after.disposed[k][1], after.disposed[k][2]) = Null

\* The chunk at (cx, cz), if there is one, counts its lateral neighbors.
CountedAt(w, cx, cz) ==
  LET chunk == WorldGetChunk(w, cx, cz)
  IN chunk # Null =>
       chunk.neighbors
         = Cardinality({d \in Lateral : WorldGetChunk(w, cx + d[1], cz + d[2]) # Null})

\* A chunk and then its neighbor at x + 1 or z - 1 evicted one after the
\* other, as the callback of Circle.center does: the second dispose finds
\* the slot of the first empty and leaves it empty, and the counters around
\* both match the ring.
AdjacentEvictions(w) ==
  \A i \in DOMAIN w.chunks.elements :
    w.chunks.elements[i] # Null =>
      \A d \in {<<1, 0>>, <<0, -1>>} :
        LET first == w.chunks.elements[i]
            second == WorldGetChunk(w, first.cx + d[1], first.cz + d[2])
        IN second # Null =>
             LET two == ChunksCenterEvict(
                          ChunksCenterEvict(w, i),
                          CircleIndex(w.chunks, second.cx, second.cz))
             IN /\ two.chunks.elements[i] = Null
                /\ two.faults \cap NeighborAsserts = {}
                /\ \A e \in Lateral :
                     /\ CountedAt(two, first.cx + e[1], first.cz + e[2])
                     /\ CountedAt(two, second.cx + e[1], second.cz + e[2])

\* C30: between World operations every chunk in the ring has a neighbors
\* counter equal to the number of its 4 lateral neighbor coordinates that
\* hold a chunk; the assertions neighbors < 4 in notifyNeighborLoaded and
\* neighbors > 0 in notifyNeighborDisposed never fail, also when one center
\* call evicts several mutually adjacent chunks; and a disposed chunk gets
\* no later notification.
C30_NeighborCountersMatchRing ==
  /\ faults \cap NeighborAsserts = {}
  /\ LET w == World
     IN /\ NeighborsCounted(w)
        /\ faults = {} => (CenterKeepsCounters(w) /\ AdjacentEvictions(w))

\* A ring with a ready chunk, from which a center call one chunk along x
\* evicts two adjacent chunks and leaves a chunk with fewer neighbors.
C30_Witness ==
  LET w == World
      after == ChunksCenter(w, 1, 0)
  IN /\ faults = {}
     /\ \E i \in Live : chunks.elements[i].neighbors = 4
     /\ \E k, m \in DOMAIN after.disposed :
          /\ k < m
          /\ <<after.disposed[m][1] - after.disposed[k][1],
               after.disposed[m][2] - after.disposed[k][2]>> \in Lateral
     /\ \E i \in Live :
          /\ after.chunks.elements[i] # Null
          /\ after.chunks.elements[i].neighbors < chunks.elements[i].neighbors
          /\ after.chunks.elements[i].neighbors > 0

\* A chunk that is not ready is dirty, and a chunk that holds a mesh is
\* ready, with 4 neighbors.
UnreadyDirtyMeshedReady ==
  \A i \in Live :
    /\ ~chunks.elements[i].ready => chunks.elements[i].dirty
    /\ ChunkHasMesh(chunks.elements[i]) =>
         (chunks.elements[i].ready /\ chunks.elements[i].neighbors = 4)

\* The slots whose chunk a step makes ready.
MadeReady ==
  {i \in Live :
     /\ chunks'.elements[i] # Null
     /\ chunks'.elements[i].cx = chunks.elements[i].cx
     /\ chunks'.elements[i].cz = chunks.elements[i].cz
     /\ ~chunks.elements[i].ready
     /\ chunks'.elements[i].ready}

\* C31: between World operations every chunk in the ring that is not ready
\* is dirty, and every chunk that holds a solid or water mesh is ready, with
\* neighbors = 4; hence a chunk that gains its 4th neighbor needs a remesh,
\* with no further edit.
C31_UnreadyDirtyMeshedReady ==
  /\ []UnreadyDirtyMeshedReady
  /\ [][\A i \in MadeReady : ChunkNeedsRemesh(chunks'.elements[i])]_vars

\* A chunk with 3 neighbors, not ready, that the next World.recenter at the
\* same center makes ready by loading the 4th, beside a chunk that holds a
\* mesh and a chunk that lost its meshes with a neighbor and is dirty again.
C31_Witness ==
  /\ faults = {}
  /\ \E i \in Live, v \in ViewPoints :
       LET after == WorldRecenter(World, v[1], 0, v[2])
       IN /\ Shr(v[1], kChunkBits) = chunks.center_x
          /\ Shr(v[2], kChunkBits) = chunks.center_z
          /\ chunks.elements[i].neighbors = 3
          /\ ~chunks.elements[i].ready
          /\ after.chunks.elements[i].ready
          /\ ChunkNeedsRemesh(after.chunks.elements[i])
  /\ \E i \in Live : ChunkHasMesh(chunks.elements[i])
  /\ \E i \in Live :
       /\ chunks.elements[i].neighbors = 3
       /\ CircleGet(chunks, chunks.elements[i].cx - 1, chunks.elements[i].cz) = Null
       /\ moves = 1

\* Every element of ring c sits in the slot addressed by its own coordinate
\* and inside the disc around the ring's center, and at every coordinate of
\* the disc where get returns null the slot is empty.
RingClean(c) ==
  /\ \A i \in DOMAIN c.elements :
       c.elements[i] # Null =>
         /\ CircleIndex(c, c.elements[i].cx, c.elements[i].cz) = i
         /\ CircleInEnvelope(c, Abs(c.elements[i].cx - c.center_x),
                             Abs(c.elements[i].cz - c.center_z))
  /\ \A n \in DOMAIN c.points :
       LET cx == c.points[n][1] + c.center_x
           cz == c.points[n][2] + c.center_z
       IN CircleGet(c, cx, cz) = Null => c.elements[CircleIndex(c, cx, cz)] = Null

\* The ring of chunks and the ring of every frontier level of w are clean
\* and the assertion in Circle.set has not failed.
RingsClean(w) ==
  /\ "assert in Circle.set" \notin w.faults
  /\ RingClean(w.chunks)
  /\ \A l \in DOMAIN w.frontier.levels : RingClean(w.frontier.levels[l])

\* The moves tried from every state: one chunk across a diagonal, the
\* ring's side along x, which addresses the same slots again, and further
\* than that along both axes.
JumpPoints ==
  {<<kChunkWidth, -kChunkWidth>>,
   <<(chunks.center_x + chunks.side) * kChunkWidth, chunks.center_z * kChunkWidth>>,
   <<-11 * kChunkWidth, 13 * kChunkWidth>>}

\* C32: World.recenter and Frontier.computeLODAtLevel never trip the
\* assertion in Circle.set, whatever the moves of the viewpoint, jumps
\* longer than the ring's side included: where get returns null for a
\* coordinate of the current disc the slot is empty, center leaves no stale
\* element and every element sits only in the slot of its own coordinate.
C32_SetNeverFindsStaleElement ==
  LET w == World
  IN /\ RingsClean(w)
     /\ faults = {} =>
          \A v \in JumpPoints :
            LET moved == WorldRecenter(w, v[1], 0, v[2])
            IN /\ RingsClean(moved)
               /\ RingsClean(WorldRemesh(moved))

\* A full ring of chunks with frontier tiles, from which a jump of the
\* ring's side along x evicts every chunk and loads one into a slot that
\* held another chunk.
C32_Witness ==
  LET w == World
      far == chunks.center_x + chunks.side
      moved == WorldRecenter(w, far * kChunkWidth, 0, chunks.center_z * kChunkWidth)
  IN /\ faults = {}
     /\ moves = 1
     /\ \A n \in DOMAIN chunks.points :
          CircleGet(chunks, chunks.points[n][1] + chunks.center_x,
                    chunks.points[n][2] + chunks.center_z) # Null
     /\ \E l \in DOMAIN frontier.levels :
          \E i \in DOMAIN frontier.levels[l].elements :
            frontier.levels[l].elements[i] # Null
     /\ moved.faults = {}
     /\ CircleGet(moved.chunks, far, chunks.center_z) # Null
     /\ CircleIndex(chunks, far, chunks.center_z)
          = CircleIndex(chunks, chunks.center_x, chunks.center_z)
     /\ Cardinality({i \in DOMAIN moved.chunks.elements :
                       moved.chunks.elements[i] # Null}) >= 1
     /\ Len(moved.disposed) = Len(chunks.points)

\* The slots of the chunks at the first 9 offsets of the ring's order: the
\* 3 x 3 block around the center.
Block3x3 ==
  {i \in Live : /\ Abs(chunks.elements[i].cx - chunks.center_x) <= 1
                /\ Abs(chunks.elements[i].cz - chunks.center_z) <= 1}

\* C33: a call of World.remesh remeshes every dirty and ready chunk among
\* the first 9 offsets of the ring's order, the 3 x 3 block around the
\* center, whatever the budget; it remeshes a chunk past them only if it
\* has remeshed no chunk before; so it remeshes at most 9 chunks and at
\* most one outside the 3 x 3 block.
C33_RemeshNearestNineThenOne ==
  [][RemeshStep =>
       /\ Block3x3 = {i \in Live : Position(i) <= 9}
       /\ Needy \cap Block3x3 \subseteq Remeshed
       /\ \A i \in Remeshed \ Block3x3 : Remeshed = {i}
       /\ Cardinality(Remeshed) <= 9
       /\ Cardinality(Remeshed \ Block3x3) <= 1]_vars

\* Several chunks of the 3 x 3 block and several past it are dirty and
\* ready: one remesh takes all of the former and none of the latter, and
\* the next takes exactly one of the latter.
C33_Witness ==
  LET once == WorldRemesh(World)
      twice == WorldRemesh(once)
      past == Needy \ Block3x3
  IN /\ faults = {} /\ twice.faults = {}
     /\ Cardinality(Needy \cap Block3x3) > kNumChunksToMeshPerFrame
     /\ Cardinality(past) > kNumChunksToMeshPerFrame
     /\ \A i \in Needy \cap Block3x3 : ~once.chunks.elements[i].dirty
     /\ \A i \in past : once.chunks.elements[i].dirty
     /\ Cardinality({i \in past : ~twice.chunks.elements[i].dirty}) = 1

\* The frontier tiles of w.
LiveTiles(w) ==
  UNION {{w.frontier.levels[l].elements[i] : i \in DOMAIN w.frontier.levels[l].elements}
           : l \in DOMAIN w.frontier.levels} \ {Null}

\* In every multi-mesh of w an enabled sub-tile is meshed, a sub-tile that
\* is not enabled has the mask 15, and the enabled sub-tiles are those of
\* the tiles in the rings.
MultiMeshesTrackTiles(w) ==
  LET tiles == LiveTiles(w)
  IN /\ \A t \in tiles : t.mesh \in DOMAIN w.frontier.meshes
     /\ \A key \in DOMAIN w.frontier.meshes, index \in 0 .. (kMultiMeshArea - 1) :
          LET mesh == w.frontier.meshes[key]
          IN /\ mesh.enabled[index] => mesh.meshed[index]
             /\ ~mesh.enabled[index] => mesh.mask[index] = kLODSingleMask
             /\ mesh.enabled[index] <=>
                  \E t \in tiles : t.mesh = key /\ LODIndex(t.cx, t.cz) = index

\* The coordinates of level l of w that hold no tile while the sub-tile of
\* their multi-mesh is still meshed.
Recreatable(w, l) ==
  {p \in {<<w.frontier.levels[l].points[n][1] + w.frontier.levels[l].center_x,
            w.frontier.levels[l].points[n][2] + w.frontier.levels[l].center_z>> :
            n \in DOMAIN w.frontier.levels[l].points} :
     /\ FrontierGet(w, l, p[1], p[2]) = Null
     /\ FrontierMeshKey(Shr(p[1], kMultiMeshBits), Shr(p[2], kMultiMeshBits), l)
          \in DOMAIN w.frontier.meshes
     /\ w.frontier.meshes[FrontierMeshKey(Shr(p[1], kMultiMeshBits),
                                          Shr(p[2], kMultiMeshBits), l)]
          .meshed[LODIndex(p[1], p[2])]}

\* The callback of computeLODAtLevel on such a coordinate, if its mask is
\* not 15: the tile is there again and enabled, the counter and the mesh
\* handles are as before, and of its multi-mesh only the mask and the
\* enabled flag of the sub-tile have changed.
ReusesGeometry(w) ==
  \A l \in DOMAIN w.frontier.levels :
    \A p \in Recreatable(w, l) :
      LET key == FrontierMeshKey(Shr(p[1], kMultiMeshBits), Shr(p[2], kMultiMeshBits), l)
          index == LODIndex(p[1], p[2])
          mask == FrontierMask(w, l, p[1], p[2])
          s == FrontierVisit([w |-> w, counter |-> 0], l, p[1], p[2])
      IN mask # 15 =>
           /\ FrontierGet(s.w, l, p[1], p[2]) # Null
           /\ s.counter = 0
           /\ s.w.meshes = w.meshes
           /\ s.w.frontier.meshes[key]
                = [w.frontier.meshes[key] EXCEPT !.mask[index] = mask,
                                                 !.enabled[index] = TRUE]

\* The viewpoints that move the center of level 0 by one tile: along z and
\* back along x.
SideSteps == {<<0, 2 * kChunkWidth>>, <<-2 * kChunkWidth, 0>>}

\* C34: with a frontier loader installed, after any sequence of center and
\* remesh operations, in every LODMultiMesh enabled[i] implies meshed[i], a
\* sub-tile that is not enabled has the mask 15, and enabled[i] holds iff a
\* live FrontierChunk occupies that slot; hence the assertion in show never
\* fails, and a tile created again under a multi-mesh that stayed enabled
\* reuses its geometry, with no call of createLODMeshes.
C34_MultiMeshTracksTiles ==
  loadFrontier # Null =>
    /\ "assert in LODMultiMesh.show" \notin faults
    /\ faults = {} =>
         LET w == World
         IN /\ MultiMeshesTrackTiles(w)
            /\ \A v \in SideSteps :
                 LET away == WorldRemesh(WorldRecenter(w, v[1], 0, v[2]))
                     back == WorldRecenter(away, chunks.center_x * kChunkWidth, 0,
                                           chunks.center_z * kChunkWidth)
                     again == WorldRemesh(back)
                 IN /\ MultiMeshesTrackTiles(away)
                    /\ MultiMeshesTrackTiles(back)
                    /\ ReusesGeometry(back)
                    /\ MultiMeshesTrackTiles(again)
                    /\ "assert in LODMultiMesh.show" \notin again.faults

\* The tiles (0, 0), (1, 0) and (0, 1) of level 0 are meshed in one
\* multi-mesh; a step of the viewer back along x evicts (0, 1) and keeps
\* (0, 0), and after the step back the first remesh creates and meshes the
\* tile (0, -1) and the second puts (0, 1) back with the geometry it had.
C34_Witness ==
  LET w == World
      away == WorldRemesh(WorldRecenter(w, -2 * kChunkWidth, 0, 0))
      back == WorldRecenter(away, 0, 0, 0)
      again == WorldRemesh(WorldRemesh(back))
      key == FrontierMeshKey(0, 0, 0)
  IN /\ faults = {} /\ loadFrontier # Null /\ again.faults = {}
     /\ chunks.center_x = 0 /\ chunks.center_z = 0
     /\ FrontierGet(w, 0, 0, 1) # Null
     /\ FrontierGet(w, 0, 0, 0) # Null
     /\ FrontierGet(away, 0, 0, 1) = Null
     /\ FrontierGet(away, 0, 0, 0) # Null
     /\ <<0, 1>> \in Recreatable(back, 0)
     /\ FrontierMask(back, 0, 0, 1) # 15
     /\ FrontierGet(again, 0, 0, 1) # Null
     /\ again.frontier.meshes[key].enabled[LODIndex(0, 1)]
     /\ again.frontier.meshes[key].solid = w.frontier.meshes[key].solid
     /\ again.frontier.meshes[key].solid # Null

\* C35: World.recenter and World.remesh are safe to call before setLoader
\* has installed a loader: as long as none is installed no chunk is
\* created, no frontier tile is meshed and no assertion has failed.
C35_SafeBeforeSetLoader ==
  (loadChunk = Null /\ loadFrontier = Null) =>
    /\ faults = {}
    /\ Live = {}
    /\ meshes = {}
    /\ \A key \in DOMAIN frontier.meshes, index \in 0 .. (kMultiMeshArea - 1) :
         ~frontier.meshes[key].meshed[index]

\* The coordinates in range of level l of w that hold no tile.
AbsentTiles(w, l) ==
  {p \in {<<w.frontier.levels[l].points[n][1] + w.frontier.levels[l].center_x,
            w.frontier.levels[l].points[n][2] + w.frontier.levels[l].center_z>> :
            n \in DOMAIN w.frontier.levels[l].points} :
     FrontierGet(w, l, p[1], p[2]) = Null}

\* The state in which remeshFrontier, called on w, starts the pass of
\* level l.
RECURSIVE LevelStart(_, _)
LevelStart(w, l) ==
  IF l = 0 THEN w ELSE FrontierComputeLODAtLevel(LevelStart(w, l - 1), l - 1)

\* In the pass of computeLODAtLevel over level l of w: a tile with no child
\* meshed is not created once the counter is at the budget, and every
\* absent tile with some but not all children meshed is there and meshed
\* after the pass, and is created whatever the counter.
PassThrottlesUnmasked(w, l) ==
  LET pass == FrontierComputeLODAtLevel(w, l)
      full == [w |-> w, counter |-> kNumLODChunksToMeshPerFrame]
  IN \A p \in AbsentTiles(w, l) :
       LET mask == FrontierMask(w, l, p[1], p[2])
       IN /\ mask = 0 => FrontierVisit(full, l, p[1], p[2]) = full
          /\ mask \notin {0, 15} =>
               /\ FrontierGet(pass, l, p[1], p[2]) # Null
               /\ FrontierChunkHasMesh(pass, FrontierGet(pass, l, p[1], p[2]))
               /\ FrontierGet(FrontierVisit(full, l, p[1], p[2]).w, l, p[1], p[2]) # Null

\* The absent tiles with no child meshed that the pass over level l of w
\* creates.
UnmaskedCreated(w, l) ==
  LET pass == FrontierComputeLODAtLevel(w, l)
  IN {p \in AbsentTiles(w, l) :
        /\ FrontierMask(w, l, p[1], p[2]) = 0
        /\ FrontierGet(pass, l, p[1], p[2]) # Null}

\* The state in which World.remesh, called on w, has remeshed the chunks
\* and is about to call remeshFrontier.
RemeshedChunks(w) ==
  LET visits == CircleEach(w.chunks, w.chunks.center_x, w.chunks.center_z)
  IN WorldRemeshFrom(
       w, visits,
       FirstVisit({m \in 1 .. Len(visits) :
                     WorldNeedsRemesh(w, visits[m][1], visits[m][2])}),
       0)

\* The states a remesh pass starts from: this one once World.remesh has
\* remeshed its chunks, and the one a step of the viewer back along x, a
\* remesh, the step back and a remesh lead to.
PassStates ==
  {RemeshedChunks(World),
   WorldRemesh(WorldRecenter(WorldRemesh(WorldRecenter(World, -2 * kChunkWidth, 0, 0)),
                             chunks.center_x * kChunkWidth, 0,
                             chunks.center_z * kChunkWidth))}

ShownTilesMeshed ==
  LET w == World
  IN \A l \in 0 .. (kFrontierLevels - 1) :
       \A n \in DOMAIN frontier.levels[l].points :
         LET cx == frontier.levels[l].points[n][1] + frontier.levels[l].center_x
             cz == frontier.levels[l].points[n][2] + frontier.levels[l].center_z
         IN FrontierMask(w, l, cx, cz) # 15 =>
              /\ FrontierGet(w, l, cx, cz) # Null
              /\ FrontierChunkHasMesh(w, FrontierGet(w, l, cx, cz))

\* The tiles of w that are in range of the centers of the levels of moved
\* are those of moved, and the others are not in moved.
EvictedOutOfRangeOnly(w, moved) ==
  \A l \in 0 .. (kFrontierLevels - 1) :
    \A i \in DOMAIN w.frontier.levels[l].elements :
      LET tile == w.frontier.levels[l].elements[i]
          ring == moved.frontier.levels[l]
      IN tile # Null =>
           IF CircleInEnvelope(ring, Abs(tile.cx - ring.center_x),
                               Abs(tile.cz - ring.center_z))
           THEN FrontierGet(moved, l, tile.cx, tile.cz) = tile
           ELSE tile \notin LiveTiles(moved)

ProbeColumns ==
  {<<0, 0>>, <<-1, 0>>, <<kChunkWidth + 1, -1>>,
   <<chunks.side * kChunkWidth, 0>>, <<-11 * kChunkWidth, 13 * kChunkWidth>>}

\* Heights below the world.
DepthsBelow == {-1, -2, -(kWorldHeight + 1)}

\* The blocks a game installs as bedrock.
BedrockBlocks == {kEmptyBlock, kStone, kWater}

\* C38: World.getBlock(x, y, z) with y < 0 returns the bedrock block that
\* setLoader installed, the empty block before any setLoader, whether or not
\* the chunk of the column is in the ring, and never the unknown block.
C38_BedrockBelowWorld ==
  LET w == World
  IN \A p \in ProbeColumns, y \in DepthsBelow :
       /\ WorldGetBlock(w, p[1], y, p[2])
            = (IF loadChunk = Null THEN kEmptyBlock ELSE kStone)
       /\ WorldGetBlock(w, p[1], y, p[2]) # kUnknownBlock
       /\ \A b \in BedrockBlocks :
            WorldGetBlock(WorldSetLoader(w, b, TerrainLoader, Null), p[1], y, p[2]) = b

\* A loader is installed, the column at the origin is in a chunk that holds
\* another block than bedrock above it, and a column far away is in no
\* chunk: below the world both read as bedrock, and at height 0 the far one
\* reads as unknown.
C38_Witness ==
  /\ faults = {} /\ bedrock = kStone
  /\ WorldGetChunk(World, 0, 0) # Null
  /\ WorldGetChunk(World, chunks.side, 0) = Null
  /\ WorldGetBlock(World, 0, kWorldHeight - 1, 0) # kStone
  /\ WorldGetBlock(World, 0, -1, 0) = kStone
  /\ WorldGetBlock(World, chunks.side * kChunkWidth, -1, 0) = kStone
  /\ WorldGetBlock(World, chunks.side * kChunkWidth, 0, 0) = kUnknownBlock

\* C39: Env calls World.remesh at most once between two render calls that
\* run, however many updates come in between: an update that remeshes
\* finds shouldMesh set and clears it, and only a render sets it again;
\* and while the pointer is not locked neither update nor render changes
\* anything.
C39_RemeshOncePerRender ==
  /\ [](env.remeshes <= 1)
  /\ [](env.shouldMesh => env.remeshes = 0)
  /\ [](~env.pointer =>
          /\ EnvRender(env) = env
          /\ EnvUpdate(env, World) = [env |-> env, w |-> World])
  /\ [][/\ env'.remeshes > env.remeshes => (env.shouldMesh /\ ~env'.shouldMesh)
        /\ (~env.shouldMesh /\ env'.shouldMesh) =>
             (env' = [EnvRender([env EXCEPT !.pointer = TRUE])
                        EXCEPT !.pointer = env.pointer]
              /\ Holds(World'))]_vars

\* The frontier has a tile, so an update has remeshed with a loader
\* installed; the pointer is locked, shouldMesh is clear, one remesh has run
\* since the last render, and a further update leaves the world and the
\* Env as they are though a remesh would change the world.
C39_Witness ==
  /\ faults = {} /\ loadFrontier # Null
  /\ env.pointer /\ ~env.shouldMesh /\ env.remeshes = 1
  /\ LiveTiles(World) # {}
  /\ Live # {}
  /\ WorldRemesh(World) # World
  /\ EnvUpdate(env, World) = [env |-> env, w |-> World]

\* The chunks loaded to compare: one of each kind of terrain, and one more.
LoadedChunks == {<<0, 0>>, <<1, 0>>, <<0, 1>>, <<1, 1>>, <<-1, 0>>}

\* The loaders they are loaded with.
HistoryLoaders == {TerrainLoader, StoneLoader}

\* C40: what Chunk.load makes does not depend on what the shared
\* World.column was used for before: loaded from this state, after any
\* chunk loads and frontier samplings, a chunk has the voxels, heightmap and
\* equi-levels, and all its other fields, that it has when loaded with a
\* column never used; and the load leaves the runs and decorations of the
\* column cleared.
C40_LoadIndependentOfColumnHistory ==
  faults = {} =>
    LET w == World
        unused == [World EXCEPT !.column = ColumnNew]
    IN \A c \in LoadedChunks, loader \in HistoryLoaders :
         LET here == ChunkLoad(w, c[1], c[2], loader)
             anew == ChunkLoad(unused, c[1], c[2], loader)
         IN /\ here.chunk.voxels = anew.chunk.voxels
            /\ here.chunk.heightmap = anew.chunk.heightmap
            /\ here.chunk.equilevels = anew.chunk.equilevels
            /\ here.chunk = anew.chunk
            /\ here.w.faults = anew.w.faults
            /\ "assert in detectEquiLevelChanges" \notin here.w.faults
            /\ here.w.column.size = 0 /\ here.w.column.last = 0
            /\ here.w.column.decorations = <<>>

\* The column has been used by a chunk load and a frontier sampling and
\* holds mismatch counts and a reference column of the last chunk loaded,
\* and the chunk at (1, 0), loaded again from this state, has a height that
\* is no equi-level.
C40_Witness ==
  /\ faults = {}
  /\ Live # {}
  /\ \E key \in DOMAIN frontier.meshes, index \in 0 .. (kMultiMeshArea - 1) :
       frontier.meshes[key].meshed[index]
  /\ column.reference_size > 0
  /\ \E y \in DOMAIN column.mismatches : column.mismatches[y] # 0
  /\ \E y \in 0 .. (kWorldHeight - 1) :
       ChunkLoad(World, 1, 0, TerrainLoader).chunk.equilevels[y] = 0
====
